---------------------------- MODULE Spec2Model ----------------------------
(***************************************************************************)
(* A model of the Australian postcodes server: its name-matching engine   *)
(* (src/src/utils/fuzzy_match.py, configured by src/src/utils/config.py),  *)
(* the tools built on it, the operations on locations and the store.       *)
(*                                                                         *)
(* Eight specifications share the module:                                  *)
(*   Spec       one call of smart_match;                                   *)
(*   TextSpec   direct calls of handle_compound_words and                  *)
(*              expand_abbreviations;                                      *)
(*   ToolSpec   one call of the tool find_similar_suburbs                  *)
(*              (src/src/tools/validation_tools.py) over a store;          *)
(*   VoiceSpec  one call of the tool phonetic_search over a store;         *)
(*   GeoSpec    one call of list_suburbs_in_radius,                        *)
(*              get_neighboring_suburbs (src/src/tools/location_tools.py)  *)
(*              or Database.search_by_radius (src/src/database.py);        *)
(*   GroupSpec  the grouping of the rows of a radius search;               *)
(*   BootSpec   one call of initialize_database (src/src/server.py) with   *)
(*              DataLoader.run (src/src/utils/data_loader.py);             *)
(*   ConnSpec   concurrent tool calls on the singleton of get_database.    *)
(*                                                                         *)
(* Texts are sequences of one-character strings, so that lower(), strip(), *)
(* split(), slicing and the similarity ratio are computed character by     *)
(* character as the Python code computes them.                             *)
(*                                                                         *)
(* Numbers.  Thresholds are integers in thousandths (0.8 is 800).  A       *)
(* confidence is an exact fraction <<n, d>> in lowest terms; the code's    *)
(* IEEE doubles are read as the rationals they approximate.                *)
(*                                                                         *)
(* Libraries.  rapidfuzz is modelled as its 3.x releases behave:           *)
(* fuzz.token_sort_ratio and process.extract apply no preprocessing unless *)
(* a processor is passed, the ratio is the normalised Indel similarity     *)
(* 100 * 2*LCS/(len1+len2), and process.extract orders by score            *)
(* descending, then by position in the choices.  doublemetaphone is        *)
(* modelled as the metaphone package computes it, for the letters listed   *)
(* at DmLetters; every text the model encodes is written with those        *)
(* letters.                                                                *)
(***************************************************************************)
EXTENDS Integers, Sequences, FiniteSets, TLC

----------------------------------------------------------------------------
(* Characters and Python's str methods                                     *)

UpperChars ==
    << "A","B","C","D","E","F","G","H","I","J","K","L","M",
       "N","O","P","Q","R","S","T","U","V","W","X","Y","Z" >>

LowerChars ==
    << "a","b","c","d","e","f","g","h","i","j","k","l","m",
       "n","o","p","q","r","s","t","u","v","w","x","y","z" >>

\* position of c in seq, 0 when absent
PosIn(c, seq) ==
    IF \E i \in 1..Len(seq) : seq[i] = c
    THEN CHOOSE i \in 1..Len(seq) : seq[i] = c
    ELSE 0

\* the lower-case letter of each upper-case one, and the reverse
ToLower == [c \in {UpperChars[i] : i \in 1..Len(UpperChars)} |->
               LowerChars[PosIn(c, UpperChars)]]

ToUpper == [c \in {LowerChars[i] : i \in 1..Len(LowerChars)} |->
               UpperChars[PosIn(c, LowerChars)]]

LowerChar(c) == IF c \in DOMAIN ToLower THEN ToLower[c] ELSE c

UpperChar(c) == IF c \in DOMAIN ToUpper THEN ToUpper[c] ELSE c

\* code point, the order Python's sorted() compares strings by
Ord(c) ==
    IF c = " " THEN 32
    ELSE IF PosIn(c, UpperChars) > 0 THEN 64 + PosIn(c, UpperChars)
    ELSE IF PosIn(c, LowerChars) > 0 THEN 96 + PosIn(c, LowerChars)
    ELSE 127

\* whitespace for str.split() and str.strip(): the space, the tab, the newline
IsSpace(c) == c \in {" ", "\t", "\n"}

\* str.lower()
lower(s) == [i \in 1..Len(s) |-> LowerChar(s[i])] \o << >>

\* str.upper()
upper(s) == [i \in 1..Len(s) |-> UpperChar(s[i])] \o << >>

\* str.strip(): from the first to the last character that is not whitespace
strip(s) ==
    LET solid == {i \in 1..Len(s) : ~IsSpace(s[i])}
    IN  IF solid = {} THEN << >>
        ELSE SubSeq(s, CHOOSE i \in solid : \A j \in solid : i <= j,
                       CHOOSE i \in solid : \A j \in solid : i >= j)

\* str.split(): the maximal runs of non-whitespace characters, in order
split(s) ==
    LET starts == {i \in 1..Len(s) : ~IsSpace(s[i]) /\ (i = 1 \/ IsSpace(s[i - 1]))}
        ends   == {i \in 1..Len(s) : ~IsSpace(s[i]) /\ (i = Len(s) \/ IsSpace(s[i + 1]))}
        nth(S, k) == CHOOSE i \in S : Cardinality({j \in S : j < i}) = k - 1
    IN  [k \in 1..Cardinality(starts) |-> SubSeq(s, nth(starts, k), nth(ends, k))]

\* sep.join(words)
RECURSIVE join(_, _)
join(sep, words) ==
    IF words = << >> THEN << >>
    ELSE IF Len(words) = 1 THEN words[1]
    ELSE words[1] \o sep \o join(sep, Tail(words))

\* s[a:b] with 0 <= a, b: Python's slice, clipped to the string
Slice(s, a, b) ==
    LET hi == IF b > Len(s) THEN Len(s) ELSE b
    IN  IF a >= hi THEN << >> ELSE SubSeq(s, a + 1, hi)

\* str.startswith(prefix)
startswith(s, prefix) ==
    Len(prefix) <= Len(s) /\ SubSeq(s, 1, Len(prefix)) = prefix

\* " " in s
HasSpace(s) == \E i \in 1..Len(s) : s[i] = " "

\* s1 < s2 in Python's string order
StrLess(s1, s2) ==
    LET n     == IF Len(s1) < Len(s2) THEN Len(s1) ELSE Len(s2)
        diffs == {i \in 1..n : s1[i] # s2[i]}
    IN  IF diffs = {} THEN Len(s1) < Len(s2)
        ELSE LET i == CHOOSE d \in diffs : \A e \in diffs : d <= e
             IN  Ord(s1[i]) < Ord(s2[i])

\* sorted(words)
RECURSIVE InsertSorted(_, _)
InsertSorted(w, sortedWords) ==
    IF sortedWords = << >> THEN << w >>
    ELSE IF StrLess(w, Head(sortedWords)) THEN << w >> \o sortedWords
    ELSE << Head(sortedWords) >> \o InsertSorted(w, Tail(sortedWords))

RECURSIVE sorted(_)
sorted(words) ==
    IF words = << >> THEN << >>
    ELSE InsertSorted(words[Len(words)], sorted(SubSeq(words, 1, Len(words) - 1)))

----------------------------------------------------------------------------
(* Exact fractions                                                         *)

RECURSIVE GCD(_, _)
GCD(a, b) == IF b = 0 THEN a ELSE GCD(b, a % b)

\* the fraction n/d (d > 0) in lowest terms
Frac(n, d) == << n \div GCD(n, d), d \div GCD(n, d) >>

FracGE(x, y) == x[1] * y[2] >= y[1] * x[2]

FracGT(x, y) == x[1] * y[2] > y[1] * x[2]

\* the boost of 0.1 left out: a faulty variant
PlusTenth_omitted(x) == x

\* x + 0.1
PlusTenth(x) == Frac(10 * x[1] + x[2], 10 * x[2])

\* min(x, y)
FracMin(x, y) == IF FracGT(x, y) THEN y ELSE x

\* round(x, 3): to the nearest thousandth, an exact half to the even one
Round3(x) ==
    LET n == 1000 * x[1]
        q == n \div x[2]
        r == n % x[2]
        k == IF 2 * r > x[2] THEN q + 1
             ELSE IF 2 * r < x[2] THEN q
             ELSE IF q % 2 = 0 THEN q ELSE q + 1
    IN  Frac(k, 1000)

\* x >= t/1000, for a threshold t given in thousandths
FracGEThousandths(x, t) == 1000 * x[1] >= t * x[2]

\* x >= (t/1000) * 0.7
FracGESeventyPercentOf(x, t) == 10000 * x[1] >= 7 * t * x[2]

----------------------------------------------------------------------------
(* rapidfuzz: fuzz.token_sort_ratio and process.extract                    *)

SetMax(S) == CHOOSE x \in S : \A y \in S : x >= y

\* One row of the longest-common-subsequence table: prev is the row of the
\* characters before ch, and entry j + 1 of a row is the length for the
\* first j characters of b.  ch is either left out, or matched with one of
\* those characters equal to it.
LcsRow(prev, ch, b) ==
    [jj \in 1..(Len(b) + 1) |->
        SetMax({prev[jj]} \cup {prev[k] + 1 : k \in {h \in 1..(jj - 1) : b[h] = ch}})]
    \o << >>

RECURSIVE LcsRows(_, _, _, _)
LcsRows(a, b, i, prev) ==
    IF i > Len(a) THEN prev
    ELSE LcsRows(a, b, i + 1, LcsRow(prev, a[i], b))

\* length of the longest common subsequence of a and b
LCS(a, b) == LcsRows(a, b, 1, [j \in 1..(Len(b) + 1) |-> 0] \o << >>)[Len(b) + 1]

\* fuzz.ratio(a, b) / 100: the normalised Indel similarity
IndelRatio(a, b) ==
    IF Len(a) + Len(b) = 0 THEN << 1, 1 >>
    ELSE Frac(2 * LCS(a, b), Len(a) + Len(b))

\* fuzz.token_sort_ratio(s1, s2) / 100, no processor
token_sort_ratio(s1, s2) ==
    IndelRatio(join(<< " " >>, sorted(split(s1))), join(<< " " >>, sorted(split(s2))))

\* The order process.extract and list.sort(reverse=True) leave: the indices
\* of keys by key descending, equal keys in their original order.
RECURSIVE InsertDesc(_, _, _)
InsertDesc(i, ord, keys) ==
    IF ord = << >> THEN << i >>
    ELSE IF FracGT(keys[i], keys[Head(ord)]) THEN << i >> \o ord
    ELSE << Head(ord) >> \o InsertDesc(i, Tail(ord), keys)

RECURSIVE OrderDescUpTo(_, _)
OrderDescUpTo(n, keys) ==
    IF n = 0 THEN << >>
    ELSE InsertDesc(n, OrderDescUpTo(n - 1, keys), keys)

StableOrderDesc(keys) == OrderDescUpTo(Len(keys), keys)

\* seq[:n]
Take(seq, n) == IF Len(seq) <= n THEN seq ELSE SubSeq(seq, 1, n)

----------------------------------------------------------------------------
(* Config.ABBREVIATIONS and expand_abbreviations                           *)

ABBREVIATIONS ==
    << << <<"M","t">>,     <<"M","o","u","n","t">> >>,
       << <<"S","t">>,     <<"S","a","i","n","t">> >>,
       << <<"P","t">>,     <<"P","o","r","t">> >>,
       << <<"N","t","h">>, <<"N","o","r","t","h">> >>,
       << <<"S","t","h">>, <<"S","o","u","t","h">> >>,
       << <<"E">>,         <<"E","a","s","t">> >>,
       << <<"W">>,         <<"W","e","s","t">> >>,
       << <<"C","k">>,     <<"C","r","e","e","k">> >>,
       << <<"H","t","s">>, <<"H","e","i","g","h","t","s">> >>,
       << <<"P","k">>,     <<"P","a","r","k">> >>,
       << <<"J","c","t">>, <<"J","u","n","c","t","i","o","n">> >>,
       << <<"C","t","r">>, <<"C","e","n","t","r","e">> >>,
       << <<"S","q">>,     <<"S","q","u","a","r","e">> >> >>

\* abbr.lower() for each key of the dictionary
AbbreviationKeys == [k \in 1..Len(ABBREVIATIONS) |-> lower(ABBREVIATIONS[k][1])]

\* the inner loop with a key matched at the start of a longer word too: a
\* faulty variant
ExpandWord_partial(word) ==
    LET hits == {k \in 1..Len(ABBREVIATIONS) :
                    startswith(lower(word), AbbreviationKeys[k])}
    IN  IF hits = {} THEN word
        ELSE ABBREVIATIONS[CHOOSE k \in hits : \A h \in hits : k <= h][2]

\* the inner loop: the expansion of the first key equal to the word,
\* ignoring case, or the word itself
ExpandWord(word) ==
    LET hits == {k \in 1..Len(ABBREVIATIONS) :
                    /\ Len(AbbreviationKeys[k]) = Len(word)
                    /\ AbbreviationKeys[k] = lower(word)}
    IN  IF hits = {} THEN word
        ELSE ABBREVIATIONS[CHOOSE k \in hits : \A h \in hits : k <= h][2]

expand_abbreviations(text) ==
    LET words == split(text)
    IN  join(<< " " >>, [i \in 1..Len(words) |-> ExpandWord(words[i])])

\* calculate_similarity(str1, str2)
calculate_similarity(str1, str2) ==
    token_sort_ratio(strip(lower(str1)), strip(lower(str2)))

----------------------------------------------------------------------------
(* metaphone: doublemetaphone                                              *)
(*                                                                         *)
(* The package's main loop, with the rules of the letters in DmLetters.    *)
(* Not modelled, and absent from every text of the model: the rules of C,  *)
(* G, J, Q, S, X, Z, the doubled-L rule for Spanish endings and the -UMB   *)
(* rule of M.  A code is a string; the padded input is indexed from 0 as   *)
(* in the package.                                                         *)

DmLetters ==
    { "A","E","I","O","U","Y","B","D","F","H","K","L","M","N","P","R","T","V","W"," " }

VOWELS == { "A","E","I","O","U","Y" }

\* st[i], 0-based
At(st, i) == st[i + 1]

\* does text contain pat as a substring
Contains(text, pat) ==
    \E a \in 0..(Len(text) - Len(pat)) : Slice(text, a, a + Len(pat)) = pat

\* whether the next character doubles the letter: the increment 2 or 1
DmInc(st, pos, ch) == IF At(st, pos + 1) = ch THEN 2 ELSE 1

\* one pass of the main loop at position pos: << primary, secondary, step >>
DmRule(st, pos, first, last, is_slavo_germanic) ==
    LET ch == At(st, pos)
    IN  IF ch \in VOWELS
        THEN IF pos = first THEN << "A", "A", 1 >> ELSE << "", "", 1 >>
        ELSE IF ch = "B" THEN << "P", "P", DmInc(st, pos, "B") >>
        ELSE IF ch = "D"
        THEN IF Slice(st, pos, pos + 2) = << "D","G" >>
             THEN IF At(st, pos + 2) \in { "I", "E", "Y" }
                  THEN << "J", "J", 3 >>
                  ELSE << "TK", "TK", 2 >>
             ELSE IF Slice(st, pos, pos + 2) \in { << "D","T" >>, << "D","D" >> }
                  THEN << "T", "T", 2 >>
                  ELSE << "T", "T", 1 >>
        ELSE IF ch = "F" THEN << "F", "F", DmInc(st, pos, "F") >>
        ELSE IF ch = "H"
        THEN IF (pos = first \/ At(st, pos - 1) \in VOWELS) /\ At(st, pos + 1) \in VOWELS
             THEN << "H", "H", 2 >>
             ELSE << "", "", 1 >>
        ELSE IF ch = "K" THEN << "K", "K", DmInc(st, pos, "K") >>
        ELSE IF ch = "L" THEN << "L", "L", DmInc(st, pos, "L") >>
        ELSE IF ch = "M" THEN << "M", "M", DmInc(st, pos, "M") >>
        ELSE IF ch = "N" THEN << "N", "N", DmInc(st, pos, "N") >>
        ELSE IF ch = "P"
        THEN IF At(st, pos + 1) = "H" THEN << "F", "F", 2 >>
             ELSE IF At(st, pos + 1) \in { "P", "B" } THEN << "P", "P", 2 >>
             ELSE << "P", "P", 1 >>
        ELSE IF ch = "R"
        THEN IF /\ pos = last
                /\ ~is_slavo_germanic
                /\ Slice(st, pos - 2, pos) = << "I","E" >>
                /\ Slice(st, pos - 4, pos - 2) \notin { << "M","E" >>, << "M","A" >> }
             THEN << "", "R", DmInc(st, pos, "R") >>
             ELSE << "R", "R", DmInc(st, pos, "R") >>
        ELSE IF ch = "T"
        THEN IF Slice(st, pos, pos + 4) = << "T","I","O","N" >> THEN << "X", "X", 3 >>
             ELSE IF Slice(st, pos, pos + 3) \in { << "T","I","A" >>, << "T","C","H" >> }
             THEN << "X", "X", 3 >>
             ELSE IF \/ Slice(st, pos, pos + 2) = << "T","H" >>
                     \/ Slice(st, pos, pos + 3) = << "T","T","H" >>
             THEN IF \/ Slice(st, pos + 2, pos + 4) \in { << "O","M" >>, << "A","M" >> }
                     \/ Slice(st, first, first + 4) \in { << "V","O","N"," " >>, << "V","A","N"," " >> }
                     \/ Slice(st, first, first + 3) = << "S","C","H" >>
                  THEN << "T", "T", 2 >>
                  ELSE << "0", "T", 2 >>
             ELSE IF At(st, pos + 1) \in { "T", "D" } THEN << "T", "T", 2 >>
             ELSE << "T", "T", 1 >>
        ELSE IF ch = "V" THEN << "F", "F", DmInc(st, pos, "V") >>
        ELSE IF ch = "W"
        THEN IF Slice(st, pos, pos + 2) = << "W","R" >> THEN << "R", "R", 2 >>
             ELSE IF pos = first /\ (At(st, pos + 1) \in VOWELS \/ Slice(st, pos, pos + 2) = << "W","H" >>)
             THEN IF At(st, pos + 1) \in VOWELS THEN << "A", "F", 1 >> ELSE << "A", "A", 1 >>
             ELSE IF \/ (pos = last /\ At(st, pos - 1) \in VOWELS)
                     \/ Slice(st, pos - 1, pos + 4) \in
                            { << "E","W","S","K","I" >>, << "E","W","S","K","Y" >>,
                              << "O","W","S","K","I" >>, << "O","W","S","K","Y" >> }
                     \/ Slice(st, first, first + 3) = << "S","C","H" >>
             THEN << "", "F", 1 >>
             ELSE IF Slice(st, pos, pos + 4) \in { << "W","I","C","Z" >>, << "W","I","T","Z" >> }
             THEN << "TS", "FX", 4 >>
             ELSE << "", "", 1 >>
        ELSE << "", "", 1 >>

RECURSIVE DmLoop(_, _, _, _, _, _, _)
DmLoop(st, pos, first, last, is_slavo_germanic, pri, sec) ==
    IF pos > last THEN << pri, sec >>
    ELSE LET nxt == DmRule(st, pos, first, last, is_slavo_germanic)
         IN  DmLoop(st, pos + nxt[3], first, last, is_slavo_germanic,
                    pri \o nxt[1], sec \o nxt[2])

\* doublemetaphone(input): << primary, secondary >>, secondary "" when equal
doublemetaphone(input) ==
    LET up     == upper(input)
        slavo  == \/ Contains(up, << "W" >>)
                  \/ Contains(up, << "K" >>)
                  \/ Contains(up, << "C","Z" >>)
                  \/ Contains(up, << "W","I","T","Z" >>)
        first  == 2
        st     == << "-", "-" >> \o up \o << " ", " ", " ", " ", " " >>
        last   == first + Len(up) - 1
        start  == IF Slice(st, first, first + 2) \in
                        { << "G","N" >>, << "K","N" >>, << "P","N" >>,
                          << "W","R" >>, << "P","S" >> }
                  THEN first + 1 ELSE first
        codes  == DmLoop(st, start, first, last, slavo, "", "")
    IN  IF codes[1] = codes[2] THEN << codes[1], "" >> ELSE codes

\* phonetic_encode(text)
phonetic_encode(text) == doublemetaphone(expand_abbreviations(strip(lower(text))))

----------------------------------------------------------------------------
(* fuzzy_match.py: handle_compound_words                                   *)

\* the (prefix, length) patterns of handle_compound_words
patterns ==
    << << <<"N","e","w">>,         4 >>,
       << <<"N","o","r","t","h">>, 5 >>,
       << <<"S","o","u","t","h">>, 5 >>,
       << <<"E","a","s","t">>,     4 >>,
       << <<"W","e","s","t">>,     4 >>,
       << <<"U","p","p","e","r">>, 5 >>,
       << <<"L","o","w","e","r">>, 5 >>,
       << <<"P","o","r","t">>,     4 >>,
       << <<"M","o","u","n","t">>, 5 >> >>

\* the loop over the patterns: one split variant per pattern that matches
RECURSIVE SplitVariants(_, _)
SplitVariants(text, k) ==
    IF k > Len(patterns) THEN << >>
    ELSE LET prefix == patterns[k][1]
             length == patterns[k][2]
         IN  (IF startswith(lower(text), lower(prefix))
              THEN << Slice(text, 0, length) \o << " " >> \o Slice(text, length, Len(text)) >>
              ELSE << >>)
             \o SplitVariants(text, k + 1)

\* handle_compound_words with the text trimmed first: a faulty variant
handle_compound_words_trimmed(text) ==
    LET words == split(text)
    IN  << strip(text) >>
        \o (IF Len(words) > 1 THEN << join(<< >>, words) >> ELSE << >>)
        \o (IF Len(words) = 2 THEN << words[1] \o words[2] >> ELSE << >>)
        \o (IF Len(text) > 6 /\ ~HasSpace(text) THEN SplitVariants(text, 1) ELSE << >>)

\* handle_compound_words(text)
handle_compound_words(text) ==
    LET words == split(text)
    IN  << text >>
        \o (IF Len(words) > 1 THEN << join(<< >>, words) >> ELSE << >>)
        \o (IF Len(words) = 2 THEN << words[1] \o words[2] >> ELSE << >>)
        \o (IF Len(text) > 6 /\ ~HasSpace(text) THEN SplitVariants(text, 1) ELSE << >>)

----------------------------------------------------------------------------
(* The inputs of the model                                                 *)

q_Darwinn   == << "D","a","r","w","i","n","n" >>
q_New_Town  == << "N","e","w"," ","T","o","w","n" >>
q_Pert      == << "P","e","r","t" >>
q_perth_    == << "p","e","r","t","h"," " >>
q_h         == << "h" >>
q_Al_Ma     == << "A","l"," ","M","a" >>
q_Mt_Eba    == << "M","t"," ","E","b","a" >>
q_Albert_Northwaterbank ==
    << "A","l","b","e","r","t"," ",
       "N","o","r","t","h","w","a","t","e","r","b","a","n","k" >>

Queries ==
    { q_Darwinn, q_New_Town, q_Pert, q_perth_, q_h, q_Al_Ma, q_Mt_Eba,
      q_Albert_Northwaterbank }

n_Darwin   == << "D","a","r","w","i","n" >>
n_Darwine  == << "D","a","r","w","i","n","e" >>
n_Newtown  == << "N","e","w","t","o","w","n" >>
n_Perth    == << "P","e","r","t","h" >>
n_Alma     == << "A","l","m","a" >>
n_Hh       == << "H","h" >>
n_Parattah == << "P","a","r","a","t","t","a","h" >>
n_Parrot   == << "P","a","r","r","o","t" >>
n_Albertnorthwaterbank ==
    << "A","l","b","e","r","t",
       "n","o","r","t","h","w","a","t","e","r","b","a","n","k" >>

Names == { n_Darwin, n_Darwine, n_Newtown, n_Perth, n_Alma }

n_MountEba == << "M","o","u","n","t"," ","E","b","a" >>

n_Mount_Eba(c) == << "M","o","u","n","t"," ","E","b","a", c >>

\* six distinct names, each one letter longer than "Mount Eba"
MountEbaPool ==
    << n_Mount_Eba("a"), n_Mount_Eba("e"), n_Mount_Eba("i"),
       n_Mount_Eba("o"), n_Mount_Eba("u"), n_Mount_Eba("y") >>

\* the longest candidate list drawn from Names
MaxPool == 2

RECURSIVE SeqsUpTo(_, _)
SeqsUpTo(S, n) ==
    IF n = 0 THEN { << >> }
    ELSE LET shorter == SeqsUpTo(S, n - 1)
         IN  shorter \cup {Append(p, x) : p \in {r \in shorter : Len(r) = n - 1}, x \in S}

\* The candidate lists: every list over Names up to MaxPool long, and six
\* lists apart
Pools ==
    SeqsUpTo(Names, MaxPool)
        \cup { MountEbaPool, << n_Darwine, n_Darwine, n_Darwin >>,
               << n_Hh >>, << n_Albertnorthwaterbank >>, << n_Parattah, n_Parrot >>,
               << n_MountEba >> }

\* two more names of the store, met by phonetic_search only
n_Ala == << "A","l","a" >>
n_Ale == << "A","l","e" >>

\* The texts the matchers meet: every candidate of a pool or name of a
\* store, and every variation of a query.
AllCandidates == UNION { {p[i] : i \in 1..Len(p)} : p \in Pools } \cup { n_Ala, n_Ale }

\* the names find_similar_suburbs is asked about
Misspellings == { q_Darwinn, q_perth_, q_h, q_Mt_Eba, q_Pert }

\* the names phonetic_search is asked about
q_Al_La == << "A","l"," ","L","a" >>

SpokenNames ==
    { q_perth_, q_Darwinn, q_New_Town, q_Al_La, q_Al_Ma, q_Pert, q_h, q_Mt_Eba }

AllVariants ==
    UNION { {handle_compound_words(q)[i] : i \in 1..Len(handle_compound_words(q))} :
            q \in Queries \cup {strip(m) : m \in Misspellings \cup SpokenNames} }

\* The scorer and the encoder on those texts, computed once: tables of the
\* values of token_sort_ratio, calculate_similarity and phonetic_encode.
RatioTable ==
    [p \in {expand_abbreviations(v) : v \in AllVariants} \X AllCandidates |->
        token_sort_ratio(p[1], p[2])] @@ << >>

SimilarityTable ==
    [p \in AllVariants \X AllCandidates |-> calculate_similarity(p[1], p[2])] @@ << >>

CodesTable ==
    [t \in AllVariants \cup AllCandidates |-> phonetic_encode(t)] @@ << >>

----------------------------------------------------------------------------
(* fuzzy_match.py: the matchers                                            *)

\* process.extract(query, choices, scorer=fuzz.token_sort_ratio, limit=limit):
\* every choice scored, the best `limit` kept, as records (match, score)
extract(query, choices, limit) ==
    LET scores == [i \in 1..Len(choices) |-> RatioTable[<< query, choices[i] >>]]
        ord    == Take(StableOrderDesc(scores), limit)
    IN  [k \in 1..Len(ord) |-> [match |-> choices[ord[k]], score |-> scores[ord[k]]]]

\* the default of find_best_matches' limit parameter, which smart_match
\* leaves unset
DefaultLimit == 5

\* find_best_matches with the comparison of its filter turned around
\* (confidence <= threshold): a faulty variant, to test the sensitivity of
\* the properties below
find_best_matches_below(query, candidates, threshold, limit) ==
    LET expanded_query == expand_abbreviations(query)
        matches == extract(expanded_query, candidates, limit * 2)
        results == SelectSeq(matches, LAMBDA m : 1000 * m.score[1] <= threshold * m.score[2])
    IN  Take([k \in 1..Len(results) |->
                 [match |-> results[k].match, confidence |-> Round3(results[k].score)]],
             limit)

\* find_best_matches(query, candidates, threshold, limit): records
\* (match, confidence); the "score" entry of the dictionaries, which no
\* caller reads, is left out
find_best_matches(query, candidates, threshold, limit) ==
    LET expanded_query == expand_abbreviations(query)
        matches == extract(expanded_query, candidates, limit * 2)
        results == SelectSeq(matches, LAMBDA m : FracGEThousandths(m.score, threshold))
    IN  Take([k \in 1..Len(results) |->
                 [match |-> results[k].match, confidence |-> Round3(results[k].score)]],
             limit)

\* the condition without its tests for empty codes: a faulty variant
CodesMatch_unguarded(q, c) ==
    \/ q[1] = c[1]
    \/ q[1] = c[2]
    \/ q[2] = c[1]

\* the condition of phonetic_match on the two pairs of codes
CodesMatch(q, c) ==
    /\ q[1] # ""
    /\ \/ q[1] = c[1]
       \/ q[1] = c[2]
       \/ (q[2] # "" /\ q[2] = c[1])

\* the loop of phonetic_match: the matches in candidate order
RECURSIVE PhoneticLoop(_, _, _, _)
PhoneticLoop(query, candidates, threshold, matches) ==
    IF candidates = << >> THEN matches
    ELSE LET candidate  == Head(candidates)
             similarity == SimilarityTable[<< query, candidate >>]
             hit == /\ CodesMatch(CodesTable[query], CodesTable[candidate])
                    /\ FracGESeventyPercentOf(similarity, threshold)
         IN  PhoneticLoop(query, Tail(candidates), threshold,
                 IF hit
                 THEN Append(matches,
                        [match      |-> candidate,
                         confidence |-> FracMin(<< 19, 20 >>, PlusTenth(similarity)),
                         match_type |-> "phonetic"])
                 ELSE matches)

\* a sort that turns the order of equal confidences around: a faulty variant
SortByConfidence_unstable(matches) ==
    LET n   == Len(matches)
        rev == [i \in 1..n |-> matches[n + 1 - i]]
        ord == StableOrderDesc([i \in 1..n |-> rev[i].confidence])
    IN  [k \in 1..n |-> rev[ord[k]]]

\* matches.sort(key=confidence, reverse=True)
SortByConfidence(matches) ==
    LET ord == StableOrderDesc([i \in 1..Len(matches) |-> matches[i].confidence])
    IN  [k \in 1..Len(matches) |-> matches[ord[k]]]

\* phonetic_match(query, candidates, threshold), under Config.MAX_SUGGESTIONS
phonetic_match(query, candidates, threshold, MAX_SUGGESTIONS) ==
    Take(SortByConfidence(PhoneticLoop(query, candidates, threshold, << >>)),
         MAX_SUGGESTIONS)

----------------------------------------------------------------------------
(* smart_match: the dictionary all_matches and the steps of the function   *)

\* A Python dict keeps its keys in insertion order and assigning to a key
\* that is present keeps the key's place: all_matches is the sequence of
\* its values, each carrying its key in `match`.
HasKey(all, key) == \E i \in 1..Len(all) : all[i].match = key

KeyIndex(all, key) == CHOOSE i \in 1..Len(all) : all[i].match = key

\* an assignment that always adds an entry: a faulty variant
DictSet_append(all, key, value) == Append(all, value)

DictSet(all, key, value) ==
    IF HasKey(all, key)
    THEN [all EXCEPT ![KeyIndex(all, key)] = value]
    ELSE Append(all, value)

\* the test with >= for >: a faulty variant
Replaces_or_ties(all, match) ==
    \/ ~HasKey(all, match.match)
    \/ FracGE(match.confidence, all[KeyIndex(all, match.match)].confidence)

\* the test both merge loops apply to a match
Replaces(all, match) ==
    \/ ~HasKey(all, match.match)
    \/ FracGT(match.confidence, all[KeyIndex(all, match.match)].confidence)

\* for match in fuzzy_matches: ...
RECURSIVE MergeFuzzy(_, _)
MergeFuzzy(all, fuzzy) ==
    IF fuzzy = << >> THEN all
    ELSE LET match == Head(fuzzy)
         IN  MergeFuzzy(IF Replaces(all, match)
                        THEN DictSet(all, match.match,
                                 [match |-> match.match, confidence |-> match.confidence,
                                  match_type |-> "fuzzy"])
                        ELSE all,
                        Tail(fuzzy))

\* for match in phonetic_matches: ...
RECURSIVE MergePhonetic(_, _)
MergePhonetic(all, phonetic) ==
    IF phonetic = << >> THEN all
    ELSE LET match == Head(phonetic)
         IN  MergePhonetic(IF Replaces(all, match)
                           THEN DictSet(all, match.match, match)
                           ELSE all,
                           Tail(phonetic))

\* the exact-match loop without lower(): a faulty variant
ExactHits_cased(q, cands) ==
    {i \in 1..Len(cands) : strip(cands[i]) = strip(q)}

\* the exact-match loop: the indices of the candidates equal to the query
\* after lower() and strip()
ExactHits(q, cands) ==
    {i \in 1..Len(cands) : strip(lower(cands[i])) = strip(lower(q))}

ExactResult(q, cands) ==
    << [match      |-> cands[CHOOSE i \in ExactHits(q, cands) :
                                 \A j \in ExactHits(q, cands) : i <= j],
        confidence |-> << 1, 1 >>,
        match_type |-> "exact"] >>

\* if use_fuzzy and Config.ENABLE_FUZZY_MATCHING, with the argument ignored:
\* a faulty variant
FuzzyEnabled_config_only(uf, cfg) == cfg.ENABLE_FUZZY_MATCHING

\* if use_fuzzy and Config.ENABLE_FUZZY_MATCHING
FuzzyEnabled(uf, cfg) == uf /\ cfg.ENABLE_FUZZY_MATCHING

\* if use_phonetic and Config.ENABLE_PHONETIC_SEARCH
PhoneticEnabled(up, cfg) == up /\ cfg.ENABLE_PHONETIC_SEARCH

\* the fuzzy half of one pass of the loop over the variations
FuzzyPass(all, variant, cands, uf, cfg) ==
    IF FuzzyEnabled(uf, cfg)
    THEN MergeFuzzy(all, find_best_matches(variant, cands, cfg.FUZZY_THRESHOLD, DefaultLimit))
    ELSE all

\* the phonetic half of one pass
PhoneticPass(all, variant, cands, up, cfg) ==
    IF PhoneticEnabled(up, cfg)
    THEN MergePhonetic(all, phonetic_match(variant, cands, cfg.PHONETIC_THRESHOLD,
                                           cfg.MAX_SUGGESTIONS))
    ELSE all

RECURSIVE VariantLoop(_, _, _, _, _, _)
VariantLoop(all, vars, cands, uf, up, cfg) ==
    IF vars = << >> THEN all
    ELSE VariantLoop(PhoneticPass(FuzzyPass(all, Head(vars), cands, uf, cfg),
                                  Head(vars), cands, up, cfg),
                     Tail(vars), cands, uf, up, cfg)

\* the return without the sort: a faulty variant
Ranked_unsorted(all, cfg) == Take(all, cfg.MAX_SUGGESTIONS)

\* results.sort(...); return results[:Config.MAX_SUGGESTIONS]
Ranked(all, cfg) == Take(SortByConfidence(all), cfg.MAX_SUGGESTIONS)

\* smart_match(query, candidates, use_fuzzy, use_phonetic) under a Config
smart_match(q, cands, uf, up, cfg) ==
    IF ExactHits(q, cands) # {} THEN ExactResult(q, cands)
    ELSE Ranked(VariantLoop(<< >>, handle_compound_words(q), cands, uf, up, cfg), cfg)

----------------------------------------------------------------------------
(* The configurations of the model                                        *)

\* Config as the environment leaves it by default (config.py), and with one
\* setting overridden
DefaultConfig ==
    [FUZZY_THRESHOLD        |-> 800,
     PHONETIC_THRESHOLD     |-> 850,
     MAX_SUGGESTIONS        |-> 5,
     ENABLE_FUZZY_MATCHING  |-> TRUE,
     ENABLE_PHONETIC_SEARCH |-> TRUE]

Configs ==
    { DefaultConfig,
      [DefaultConfig EXCEPT !.FUZZY_THRESHOLD = 900],
      [DefaultConfig EXCEPT !.MAX_SUGGESTIONS = 1],
      [DefaultConfig EXCEPT !.MAX_SUGGESTIONS = 2],
      [DefaultConfig EXCEPT !.MAX_SUGGESTIONS = 6],
      [DefaultConfig EXCEPT !.ENABLE_FUZZY_MATCHING = FALSE],
      [DefaultConfig EXCEPT !.ENABLE_PHONETIC_SEARCH = FALSE],
      [DefaultConfig EXCEPT !.ENABLE_FUZZY_MATCHING = FALSE,
                            !.ENABLE_PHONETIC_SEARCH = FALSE] }

\* The calls of the model: every setting of the two flags under the default
\* configuration, and both flags set under each of the other configurations.
Calls ==
    { << uf, up, DefaultConfig >> : uf \in BOOLEAN, up \in BOOLEAN }
        \cup { << TRUE, TRUE, cfg >> : cfg \in Configs }

----------------------------------------------------------------------------
(* One call of smart_match, step by step                                   *)

VARIABLES
    query, candidates, use_fuzzy, use_phonetic,  \* the arguments
    Config,                                      \* the class Config
    pc,                                          \* where the call stands
    variations, vi,                              \* the loop over the variations
    fuzzy_matches, phonetic_matches,             \* the last lists the matchers returned
    all_matches,                                 \* the dictionary, in insertion order
    results                                      \* the list returned

\* A direct call of one of the text helpers (further down): its argument,
\* the helper called, what it returned, and the number of calls made
VARIABLES input_text, called, returned, calls

textVars == << input_text, called, returned, calls >>

\* no helper is being called directly
NoTextCall ==
    /\ input_text = << >>
    /\ called = "none"
    /\ returned = << >>
    /\ calls = 0

\* A call of the tool find_similar_suburbs (further down): its arguments
\* misspelled, state and threshold, the rows of the store, the place the
\* call has reached, its local `matches`, the stages run with what each
\* returned, and the dictionary returned
VARIABLES misspelled, state, caller_threshold, db, stage, tool_matches,
          stages_run, response

toolVars ==
    << misspelled, state, caller_threshold, db, stage, tool_matches,
       stages_run, response >>

\* the tool is not being called
NoToolCall ==
    /\ misspelled = << >>
    /\ state = << >>
    /\ caller_threshold = 0
    /\ db = {}
    /\ stage = "idle"
    /\ tool_matches = << >>
    /\ stages_run = << >>
    /\ response = << >>

\* The calls of the other tools and of the server's start (further down).
\* phonetic_search: its argument spoken_name; its locals variations and
\* phonetic_matches and its store, stage and response are the variables of
\* those names above.
VARIABLES spoken_name

\* list_suburbs_in_radius, get_neighboring_suburbs and
\* Database.search_by_radius: the operation called; the centre asked for
\* (postcode_or_suburb, suburb); radius_km, in metres; max_neighbors; the
\* methods of the store called so far; the coordinates of the centre, in
\* thousandths of a degree; the rows a radius search delivered to a tool.
VARIABLES operation, center, radius_km, max_neighbors, store_calls, center_coords,
          nearby_results

geoVars ==
    << operation, center, radius_km, max_neighbors, store_calls, center_coords,
       nearby_results >>

\* initialize_database at the start of the server: the database file
\* ("missing", "no_schema", "schema") and the number of rows of the table
\* postcodes, now and before the call; whether the directory of the file
\* exists; whether the download and the load succeed, and the number of
\* records of the file downloaded; the place the call has reached, whether
\* DataLoader.run was called, and the value returned.
VARIABLES store_file, store_records, store_at_start, data_dir, download_ok, load_ok,
          csv_records, boot_pc, loader_ran, boot_result

bootVars ==
    << store_file, store_records, store_at_start, data_dir, download_ok, load_ok,
       csv_records, boot_pc, loader_ran, boot_result >>

\* the server is not starting
NoBootCall ==
    /\ store_file = "schema"
    /\ store_records = 0
    /\ store_at_start = 0
    /\ data_dir = TRUE
    /\ download_ok = TRUE
    /\ load_ok = TRUE
    /\ csv_records = 0
    /\ boot_pc = "idle"
    /\ loader_ran = FALSE
    /\ boot_result = "none"

\* Concurrent tool calls on the singleton of database.py: the module's
\* _database_instance ("None" or "Database"); its _connection (0 for None,
\* else the number of the connection); the connections aiosqlite.connect
\* has opened; for each task, the place it has reached and the connection
\* it was handed.
VARIABLES database_instance, connection, opened, task_pc, task_conn

connVars == << database_instance, connection, opened, task_pc, task_conn >>

\* no task is running
NoConnCall ==
    /\ database_instance = "None"
    /\ connection = 0
    /\ opened = 0
    /\ task_pc = << >>
    /\ task_conn = << >>

serviceVars == << spoken_name, geoVars, bootVars, connVars >>

\* no operation on locations is being called
NoGeoCall ==
    /\ operation = "none"
    /\ center = << >>
    /\ radius_km = 0
    /\ max_neighbors = 0
    /\ store_calls = << >>
    /\ center_coords = << >>
    /\ nearby_results = << >>

\* none of them is being called
NoServiceCall ==
    /\ spoken_name = << >>
    /\ NoGeoCall
    /\ NoBootCall
    /\ NoConnCall

\* the variables outside a call of smart_match
others == << textVars, toolVars, serviceVars >>

vars ==
    << query, candidates, use_fuzzy, use_phonetic, Config, pc, variations, vi,
       fuzzy_matches, phonetic_matches, all_matches, results, others >>

inputs == << query, candidates, use_fuzzy, use_phonetic, Config >>

Init ==
    /\ query \in Queries
    /\ candidates \in Pools
    /\ \E call \in Calls :
          /\ use_fuzzy = call[1]
          /\ use_phonetic = call[2]
          /\ Config = call[3]
    /\ pc = "start"
    /\ variations = << >>
    /\ vi = 0
    /\ fuzzy_matches = << >>
    /\ phonetic_matches = << >>
    /\ all_matches = << >>
    /\ results = << >>
    /\ NoTextCall
    /\ NoToolCall
    /\ NoServiceCall

\* lines 217-225: some candidate equals the query; return it alone
ExactShortCircuit ==
    /\ pc = "start"
    /\ ExactHits(query, candidates) # {}
    /\ results' = ExactResult(query, candidates)
    /\ pc' = "done"
    /\ UNCHANGED << inputs, variations, vi, fuzzy_matches, phonetic_matches, all_matches, others >>

\* lines 217-228: no candidate equals the query; generate the variations
ExpandVariants ==
    /\ pc = "start"
    /\ ExactHits(query, candidates) = {}
    /\ variations' = handle_compound_words(query)
    /\ vi' = 1
    /\ pc' = "fuzzy"
    /\ UNCHANGED << inputs, fuzzy_matches, phonetic_matches, all_matches, results, others >>

\* lines 231-242: the fuzzy half of the pass for variations[vi]
FuzzyStep ==
    /\ pc = "fuzzy"
    /\ IF FuzzyEnabled(use_fuzzy, Config)
       THEN LET found == find_best_matches(variations[vi], candidates,
                                           Config.FUZZY_THRESHOLD, DefaultLimit)
            IN  /\ fuzzy_matches' = found
                /\ all_matches' = MergeFuzzy(all_matches, found)
       ELSE UNCHANGED << fuzzy_matches, all_matches >>
    /\ pc' = "phonetic"
    /\ UNCHANGED << inputs, variations, vi, phonetic_matches, results, others >>

\* lines 244-254: the phonetic half of the pass, then the next variation
PhoneticStep ==
    /\ pc = "phonetic"
    /\ IF PhoneticEnabled(use_phonetic, Config)
       THEN LET found == phonetic_match(variations[vi], candidates,
                                        Config.PHONETIC_THRESHOLD,
                                        Config.MAX_SUGGESTIONS)
            IN  /\ phonetic_matches' = found
                /\ all_matches' = MergePhonetic(all_matches, found)
       ELSE UNCHANGED << phonetic_matches, all_matches >>
    /\ vi' = vi + 1
    /\ pc' = IF vi < Len(variations) THEN "fuzzy" ELSE "rank"
    /\ UNCHANGED << inputs, variations, fuzzy_matches, results, others >>

\* lines 256-260: sort by confidence, truncate, return
Rank ==
    /\ pc = "rank"
    /\ results' = Ranked(all_matches, Config)
    /\ pc' = "done"
    /\ UNCHANGED << inputs, variations, vi, fuzzy_matches, phonetic_matches, all_matches, others >>

Next ==
    \/ ExactShortCircuit
    \/ ExpandVariants
    \/ FuzzyStep
    \/ PhoneticStep
    \/ Rank

Spec == Init /\ [][Next]_vars

----------------------------------------------------------------------------
(* Properties of smart_match                                               *)

\* the call has returned
Returned == pc = "done"

\* the call has returned from the end of the function, not from the
\* exact-match loop
ReturnedRanked == pc = "done" /\ variations # << >>

\* some candidate equals the query once both are lowercased and trimmed
SomeCandidateEqualsQuery ==
    \E i \in 1..Len(candidates) : strip(lower(candidates[i])) = strip(lower(query))

FlagSettings == BOOLEAN \X BOOLEAN

\* C1 - exact short-circuit: when some candidate equals the query after
\* lowercasing and trimming both, the call returns exactly one entry: the
\* first such candidate, with confidence 1.0 and match type 'exact'; the
\* result is the same for every setting of use_fuzzy and use_phonetic, and
\* neither matcher has run nor has the dictionary received an entry.
C1_ExactShortCircuit ==
    (Returned /\ SomeCandidateEqualsQuery) =>
        /\ Len(results) = 1
        /\ \E i \in 1..Len(candidates) :
              /\ results[1].match = candidates[i]
              /\ strip(lower(candidates[i])) = strip(lower(query))
              /\ \A j \in 1..(i - 1) : strip(lower(candidates[j])) # strip(lower(query))
        /\ results[1].confidence = << 1, 1 >>
        /\ results[1].match_type = "exact"
        /\ fuzzy_matches = << >> /\ phonetic_matches = << >> /\ all_matches = << >>
        /\ \A f \in FlagSettings :
              smart_match(query, candidates, f[1], f[2], Config) = results

\* C1 happens: the query "perth " met the list with "Perth" in second place,
\* both strategies switched on
C1_Witness ==
    /\ Returned /\ SomeCandidateEqualsQuery
    /\ use_fuzzy /\ use_phonetic
    /\ Len(candidates) = 2
    /\ results[1].match = candidates[2]
    /\ candidates[1] # candidates[2]

\* C2 - dedup invariant: the list returned never holds two entries with the
\* same matched name, and neither does the dictionary at any step.
C2_NoTwoEntriesShareAName ==
    /\ \A i, j \in 1..Len(results) :
          results[i].match = results[j].match => i = j
    /\ \A i, j \in 1..Len(all_matches) :
          all_matches[i].match = all_matches[j].match => i = j

\* C2 happens: a list naming one candidate twice, three variations, and
\* both matchers returning that name twice in the last pass
C2_Witness ==
    /\ ReturnedRanked
    /\ Len(variations) = 3
    /\ Len(candidates) = 2 /\ candidates[1] = candidates[2]
    /\ Len(fuzzy_matches) = 2 /\ Len(phonetic_matches) = 2
    /\ Len(results) = 1

\* the confidences the two strategies compute for one name, over all the
\* variations: each matcher run on that name alone
ComputedFor(name) ==
    UNION { (IF FuzzyEnabled(use_fuzzy, Config)
             THEN LET found == find_best_matches(variations[k], << name >>,
                                                 Config.FUZZY_THRESHOLD, DefaultLimit)
                  IN  {found[h].confidence : h \in 1..Len(found)}
             ELSE {})
            \cup
            (IF PhoneticEnabled(use_phonetic, Config)
             THEN LET found == phonetic_match(variations[k], << name >>,
                                              Config.PHONETIC_THRESHOLD,
                                              Config.MAX_SUGGESTIONS)
                  IN  {found[h].confidence : h \in 1..Len(found)}
             ELSE {}) : k \in 1..Len(variations) }

\* C3 - dedup keeps the best: for every name of a result that did not come
\* from the exact-match loop, the confidence reported is the highest one
\* that either strategy computes for that name over all the variations.
C3_ReportsTheBestConfidence ==
    ReturnedRanked =>
        \A i \in 1..Len(results) :
            /\ results[i].confidence \in ComputedFor(results[i].match)
            /\ \A c \in ComputedFor(results[i].match) : FracGE(results[i].confidence, c)

\* the entries the fuzzy half of the pass for one variation offers to the
\* dictionary, in order, and those the phonetic half offers
FuzzyProductions(variant) ==
    IF FuzzyEnabled(use_fuzzy, Config)
    THEN LET found == find_best_matches(variant, candidates,
                                        Config.FUZZY_THRESHOLD, DefaultLimit)
         IN  [k \in 1..Len(found) |->
                 [match |-> found[k].match, confidence |-> found[k].confidence,
                  match_type |-> "fuzzy"]]
    ELSE << >>

PhoneticProductions(variant) ==
    IF PhoneticEnabled(use_phonetic, Config)
    THEN phonetic_match(variant, candidates, Config.PHONETIC_THRESHOLD,
                        Config.MAX_SUGGESTIONS)
    ELSE << >>

RECURSIVE Concat(_)
Concat(lists) ==
    IF lists = << >> THEN << >> ELSE Head(lists) \o Concat(Tail(lists))

\* the productions pass by pass: for each variation in turn, its fuzzy
\* productions and then its phonetic ones
PassOrder ==
    Concat([k \in 1..Len(variations) |->
               FuzzyProductions(variations[k]) \o PhoneticProductions(variations[k])])

\* the productions strategy by strategy: the fuzzy productions of all the
\* variations, and then the phonetic productions of all the variations
StrategyOrder ==
    Concat([k \in 1..Len(variations) |-> FuzzyProductions(variations[k])])
        \o Concat([k \in 1..Len(variations) |-> PhoneticProductions(variations[k])])

\* the first production of a name in an order (0 when there is none)
FirstOf(order, name) ==
    LET at == {k \in 1..Len(order) : order[k].match = name}
    IN  IF at = {} THEN 0 ELSE CHOOSE k \in at : \A h \in at : k <= h

\* the first production in an order that carries a name's highest confidence
FirstBestOf(order, name) ==
    LET at   == {k \in 1..Len(order) : order[k].match = name}
        best == {k \in at : \A h \in at : FracGE(order[k].confidence, order[h].confidence)}
    IN  IF at = {} THEN 0 ELSE CHOOSE k \in best : \A h \in best : k <= h

\* every entry of the dictionary is the first of the productions of its
\* name that carry the highest confidence among them
KeepsFirstBest(order) ==
    \A i \in 1..Len(all_matches) :
        /\ FirstBestOf(order, all_matches[i].match) # 0
        /\ all_matches[i] = order[FirstBestOf(order, all_matches[i].match)]

\* the productions made so far: those of the passes before variations[vi],
\* and the fuzzy ones of the pass for variations[vi] once its fuzzy half is
\* done
ProducedSoFar ==
    Concat([k \in 1..Len(variations) |->
               (IF k < vi \/ (k = vi /\ pc = "phonetic")
                THEN FuzzyProductions(variations[k]) ELSE << >>)
               \o (IF k < vi THEN PhoneticProductions(variations[k]) ELSE << >>)])

\* C4 (as the code has it) - dedup tie rule: of the productions of one name
\* with equal confidence the dictionary keeps the one produced first, where
\* the productions come pass by pass: for each variation in turn its fuzzy
\* productions, then its phonetic ones.  It holds after every half pass.
C4_TieKeepsFirstInPassOrder ==
    /\ variations # << >> => KeepsFirstBest(ProducedSoFar)
    /\ ReturnedRanked => ProducedSoFar = PassOrder

\* C4 happens: an entry tagged 'phonetic' stands although the fuzzy matcher
\* produced the same name with the same confidence for a later variation
C4_Witness ==
    /\ ReturnedRanked
    /\ \E i \in 1..Len(all_matches) : \E k \in 1..Len(fuzzy_matches) :
          /\ all_matches[i].match_type = "phonetic"
          /\ fuzzy_matches[k].match = all_matches[i].match
          /\ fuzzy_matches[k].confidence = all_matches[i].confidence

\* C4 (as stated) - the same with all the fuzzy productions before all the
\* phonetic ones; in particular a fuzzy and a phonetic production of equal
\* confidence for one name leave the entry tagged 'fuzzy'.
C4_TieKeepsFirstInStrategyOrder == ReturnedRanked => KeepsFirstBest(StrategyOrder)

\* C5 - ranking: the list returned is in non-increasing order of confidence
\* and holds at most Config.MAX_SUGGESTIONS entries (the configurations of
\* the model have MAX_SUGGESTIONS >= 1).
C5_SortedAndTruncated ==
    Returned =>
        /\ \A i, j \in 1..Len(results) :
              i < j => FracGE(results[i].confidence, results[j].confidence)
        /\ Len(results) <= Config.MAX_SUGGESTIONS

\* C5 happens: the dictionary held more names than MAX_SUGGESTIONS, in
\* another order than that of their confidences
C5_Witness ==
    /\ ReturnedRanked
    /\ Len(all_matches) > Config.MAX_SUGGESTIONS
    /\ Len(results) = Config.MAX_SUGGESTIONS
    /\ \E i, j \in 1..Len(all_matches) :
          i < j /\ FracGT(all_matches[j].confidence, all_matches[i].confidence)

\* the place of a name in the candidate list
CandidateIndex(name) ==
    CHOOSE i \in 1..Len(candidates) :
        /\ candidates[i] = name
        /\ \A j \in 1..(i - 1) : candidates[j] # name

\* the entries of the dictionary that the result leaves out
LeftOut == {i \in 1..Len(all_matches) :
               \A k \in 1..Len(results) : results[k].match # all_matches[i].match}

\* C6 (as the code has it) - ranking tie-break: two entries of the result
\* with equal confidence stand in the order in which their names were first
\* produced (pass by pass), and an entry left out by the truncation was
\* first produced after every returned entry of the same confidence.
C6_TiesInProductionOrder ==
    ReturnedRanked =>
        /\ \A i, j \in 1..Len(results) :
              (i < j /\ results[i].confidence = results[j].confidence) =>
                  FirstOf(PassOrder, results[i].match) < FirstOf(PassOrder, results[j].match)
        /\ \A i \in LeftOut : \A k \in 1..Len(results) :
              results[k].confidence = all_matches[i].confidence =>
                  FirstOf(PassOrder, results[k].match)
                      < FirstOf(PassOrder, all_matches[i].match)

\* C6 happens: two entries of equal confidence returned in the opposite
\* order to that of the candidate list
C6_Witness ==
    /\ ReturnedRanked
    /\ \E i, j \in 1..Len(results) :
          /\ i < j
          /\ results[i].confidence = results[j].confidence
          /\ CandidateIndex(results[i].match) > CandidateIndex(results[j].match)

\* C6 (as stated) - two entries of the result with equal confidence stand in
\* the order of their names in the candidate list, and the truncation keeps
\* the earlier candidates.
C6_TiesInCandidateOrder ==
    ReturnedRanked =>
        /\ \A i, j \in 1..Len(results) :
              (i < j /\ results[i].confidence = results[j].confidence) =>
                  CandidateIndex(results[i].match) < CandidateIndex(results[j].match)
        /\ \A i \in LeftOut : \A k \in 1..Len(results) :
              results[k].confidence = all_matches[i].confidence =>
                  CandidateIndex(results[k].match) < CandidateIndex(all_matches[i].match)

\* fuzzy thresholds, in thousandths, in increasing order: below, between
\* and above the scores of the model's texts
Thresholds == << 700, 800, 860, 900, 930, 1000 >>

\* the number of entries smart_match returns at each of the thresholds, and
\* the number find_best_matches returns for a variation
ResultSizes ==
    [i \in 1..Len(Thresholds) |->
        Len(smart_match(query, candidates, use_fuzzy, use_phonetic,
                        [Config EXCEPT !.FUZZY_THRESHOLD = Thresholds[i]]))] \o << >>

FuzzySizes(variant) ==
    [i \in 1..Len(Thresholds) |->
        Len(find_best_matches(variant, candidates, Thresholds[i], DefaultLimit))] \o << >>

NonIncreasing(sizes) == \A i \in 1..(Len(sizes) - 1) : sizes[i + 1] <= sizes[i]

\* C7 - threshold monotonicity: with the query, the candidate list, the
\* flags and the phonetic threshold fixed, a higher fuzzy threshold never
\* makes smart_match return more entries, nor find_best_matches for any
\* variation; the call made is the one at its own threshold.
C7_RaisingThresholdNeverAddsEntries ==
    Returned =>
        /\ NonIncreasing(ResultSizes)
        /\ \A i \in 1..Len(Thresholds) :
              Thresholds[i] = Config.FUZZY_THRESHOLD => ResultSizes[i] = Len(results)
        /\ \A k \in 1..Len(handle_compound_words(query)) :
              NonIncreasing(FuzzySizes(handle_compound_words(query)[k]))

\* C7 happens: two entries returned at the threshold 0.8, of which the
\* threshold 0.9 leaves one
C7_Witness ==
    /\ ReturnedRanked
    /\ Config.FUZZY_THRESHOLD = 800
    /\ Len(results) = 2
    /\ Len(smart_match(query, candidates, use_fuzzy, use_phonetic,
                       [Config EXCEPT !.FUZZY_THRESHOLD = 900])) = 1

\* C8 - strategy flags: when no candidate equals the query, a call with
\* use_fuzzy = False returns only entries that phonetic_match produced, all
\* tagged 'phonetic'; a call with use_phonetic = False only entries that
\* find_best_matches produced, all tagged 'fuzzy'; and a call with both
\* False, or with both features switched off in Config, returns the empty
\* list.
C8_FlagsSelectTheStrategies ==
    ReturnedRanked =>
        /\ ~use_fuzzy =>
              \A i \in 1..Len(results) :
                  /\ results[i].match_type = "phonetic"
                  /\ \E k \in 1..Len(variations) :
                        LET found == phonetic_match(variations[k], candidates,
                                                    Config.PHONETIC_THRESHOLD,
                                                    Config.MAX_SUGGESTIONS)
                        IN  \E h \in 1..Len(found) : found[h] = results[i]
        /\ ~use_phonetic =>
              \A i \in 1..Len(results) :
                  /\ results[i].match_type = "fuzzy"
                  /\ \E k \in 1..Len(variations) :
                        LET found == find_best_matches(variations[k], candidates,
                                                       Config.FUZZY_THRESHOLD,
                                                       DefaultLimit)
                        IN  \E h \in 1..Len(found) :
                               /\ found[h].match = results[i].match
                               /\ found[h].confidence = results[i].confidence
        /\ (~use_fuzzy /\ ~use_phonetic) => results = << >>
        /\ (~Config.ENABLE_FUZZY_MATCHING /\ ~Config.ENABLE_PHONETIC_SEARCH) =>
              results = << >>

\* C8 happens: use_fuzzy = False, a phonetic entry returned for a name the
\* fuzzy matcher would have produced too
C8_Witness ==
    /\ ReturnedRanked
    /\ ~use_fuzzy /\ use_phonetic
    /\ results # << >>
    /\ \E k \in 1..Len(variations) :
          LET found == find_best_matches(variations[k], candidates,
                                         Config.FUZZY_THRESHOLD, DefaultLimit)
          IN  \E h \in 1..Len(found) : found[h].match = results[1].match

\* the query has more than one word, and a candidate equals, ignoring case,
\* the query with its whitespace removed
JoinedQueryIs(name) ==
    /\ Len(split(query)) > 1
    /\ lower(join(<< >>, split(query))) = lower(name)

\* C9 - compound-word matching: when the query has more than one word and
\* its whitespace-removed form matches a candidate (as 'New Castle' matches
\* 'Newcastle'), a call with fuzzy matching enabled returns a non-empty
\* list that holds that candidate.
C9_JoinedQueryFindsTheCandidate ==
    (Returned /\ FuzzyEnabled(use_fuzzy, Config)) =>
        \A i \in 1..Len(candidates) :
            JoinedQueryIs(candidates[i]) =>
                \E k \in 1..Len(results) : results[k].match = candidates[i]

\* the query "New Town" finds "Newtown" through its joined variation
C9_JoinedQueryFound ==
    /\ ReturnedRanked /\ use_fuzzy /\ ~use_phonetic
    /\ \E i \in 1..Len(candidates) :
          /\ JoinedQueryIs(candidates[i])
          /\ \E k \in 1..Len(results) :
                results[k].match = candidates[i] /\ results[k].match_type = "fuzzy"

\* the test of phonetic_match on the codes, read off its result for one
\* candidate with the similarity test passed by every pair (threshold 0)
TreatedAsPhoneticMatch(text, name) == phonetic_match(text, << name >>, 0, 1) # << >>

\* C10 (as the code has it) - phonetic match rule: phonetic_match treats a
\* query and a candidate as a phonetic match exactly when the query's
\* primary code is not empty and either equals the candidate's primary or
\* secondary code, or the query's secondary code is not empty and equals
\* the candidate's primary code; every entry phonetic_match returned in the
\* last pass satisfies the rule.
C10_PhoneticRuleNeedsNonEmptyCodes ==
    /\ (pc = "rank" /\ PhoneticEnabled(use_phonetic, Config)) =>
          \A k \in 1..Len(variations) : \A i \in 1..Len(candidates) :
              LET q == phonetic_encode(variations[k])
                  c == phonetic_encode(candidates[i])
              IN  TreatedAsPhoneticMatch(variations[k], candidates[i])
                      <=> /\ q[1] # ""
                          /\ \/ q[1] = c[1]
                             \/ q[1] = c[2]
                             \/ (q[2] # "" /\ q[2] = c[1])
    /\ (pc = "rank" /\ PhoneticEnabled(use_phonetic, Config)) =>
          \A h \in 1..Len(phonetic_matches) :
              TreatedAsPhoneticMatch(variations[Len(variations)], phonetic_matches[h].match)

\* C10 happens: phonetic_match returned a candidate whose primary code
\* differs from the query's and whose secondary code equals it
C10_Witness ==
    /\ pc = "rank"
    /\ PhoneticEnabled(use_phonetic, Config)
    /\ \E h \in 1..Len(phonetic_matches) :
          LET q == phonetic_encode(variations[Len(variations)])
              c == phonetic_encode(phonetic_matches[h].match)
          IN  q[1] # c[1] /\ q[1] = c[2]

\* C10 (as stated) - a phonetic match exactly when the primary codes are
\* equal or the primary code of one equals the secondary code of the other;
\* in particular any two inputs with the same primary code are matched.
C10_PhoneticRuleOnCodesAlone ==
    (pc = "rank" /\ PhoneticEnabled(use_phonetic, Config)) =>
        \A k \in 1..Len(variations) : \A i \in 1..Len(candidates) :
            LET q == phonetic_encode(variations[k])
                c == phonetic_encode(candidates[i])
            IN  TreatedAsPhoneticMatch(variations[k], candidates[i])
                    <=> (q[1] = c[1] \/ q[1] = c[2] \/ q[2] = c[1])

----------------------------------------------------------------------------
(* Properties of phonetic_match                                            *)

\* the phonetic half of a pass has run: phonetic_matches is what
\* phonetic_match returned for variations[vi - 1]
PhoneticRan == vi > 1 /\ PhoneticEnabled(use_phonetic, Config)

\* the candidate's codes match those of the variation of the last pass
CodesMatchLastVariant(name) ==
    CodesMatch(CodesTable[variations[vi - 1]], CodesTable[name])

\* the candidate's similarity to the variation of the last pass is at least
\* 0.7 x Config.PHONETIC_THRESHOLD
SimilarEnough(name) ==
    LET s == SimilarityTable[<< variations[vi - 1], name >>]
    IN  10000 * s[1] >= 7 * Config.PHONETIC_THRESHOLD * s[2]

\* min(0.95, similarity + 0.1) for the candidate and the variation of the
\* last pass
BoostedSimilarity(name) ==
    LET s == SimilarityTable[<< variations[vi - 1], name >>]
    IN  IF 20 * (10 * s[1] + s[2]) > 19 * (10 * s[2])
        THEN << 19, 20 >>
        ELSE Frac(10 * s[1] + s[2], 10 * s[2])

\* phonetic_match returned the candidate
EmittedPhonetic(name) ==
    \E k \in 1..Len(phonetic_matches) : phonetic_matches[k].match = name

\* every entry phonetic_match returned is a candidate with matching codes
\* and enough similarity, has confidence min(0.95, similarity + 0.1), a
\* value between 0.7 x threshold + 0.1 and 0.95, and type 'phonetic'
PhoneticEntriesScored ==
    \A k \in 1..Len(phonetic_matches) :
        LET m == phonetic_matches[k]
        IN  /\ \E i \in 1..Len(candidates) : candidates[i] = m.match
            /\ CodesMatchLastVariant(m.match)
            /\ SimilarEnough(m.match)
            /\ m.confidence = BoostedSimilarity(m.match)
            /\ m.match_type = "phonetic"
            /\ FracGE(m.confidence, Frac(7 * Config.PHONETIC_THRESHOLD + 1000, 10000))
            /\ FracGE(<< 19, 20 >>, m.confidence)

\* the places of the candidate list that pass both tests
PassingPlaces ==
    {i \in 1..Len(candidates) :
        CodesMatchLastVariant(candidates[i]) /\ SimilarEnough(candidates[i])}

----------------------------------------------------------------------------
(* Confidence 1.0                                                          *)

\* C12 - confidence 1.0 is reserved for exact matches: in every result of
\* smart_match an entry has confidence 1.0 only if its match type is
\* 'exact', that is, only if its name equals the query after lowercasing
\* and trimming both.
C12_FullConfidenceOnlyForExact ==
    Returned =>
        \A k \in 1..Len(results) :
            results[k].confidence = << 1, 1 >> =>
                /\ results[k].match_type = "exact"
                /\ strip(lower(results[k].match)) = strip(lower(query))

\* C12 happens: the call returned an entry of type 'exact' with
\* confidence 1.0
C12_Witness ==
    /\ Returned
    /\ \E k \in 1..Len(results) :
          results[k].confidence = << 1, 1 >> /\ results[k].match_type = "exact"

----------------------------------------------------------------------------
(* Empty outcomes                                                          *)

\* the fuzzy half of the pass for variations[vi] has run: fuzzy_matches is
\* what find_best_matches returned for it
FuzzyRan == pc = "phonetic" /\ FuzzyEnabled(use_fuzzy, Config)

\* no candidate reaches Config.FUZZY_THRESHOLD against the variation
NoneClearsFuzzy(variant) ==
    \A i \in 1..Len(candidates) :
        LET s == RatioTable[<< expand_abbreviations(variant), candidates[i] >>]
        IN  1000 * s[1] < Config.FUZZY_THRESHOLD * s[2]

\* no candidate with matching codes reaches 0.7 x Config.PHONETIC_THRESHOLD
\* against the variation
NoneClearsPhonetic(variant) ==
    \A i \in 1..Len(candidates) :
        LET s == SimilarityTable[<< variant, candidates[i] >>]
        IN  CodesMatch(CodesTable[variant], CodesTable[candidates[i]])
                => 10000 * s[1] < 7 * Config.PHONETIC_THRESHOLD * s[2]

\* no candidate equals the query and none clears the threshold of a
\* strategy that is switched on, for any variation
NoneClears ==
    /\ ~SomeCandidateEqualsQuery
    /\ \A k \in 1..Len(variations) :
          /\ FuzzyEnabled(use_fuzzy, Config) => NoneClearsFuzzy(variations[k])
          /\ PhoneticEnabled(use_phonetic, Config) => NoneClearsPhonetic(variations[k])

\* C13 - an empty outcome is not an error: find_best_matches,
\* phonetic_match and smart_match each return the empty list when the
\* candidate list is empty or when no candidate clears the thresholds, and
\* a call on an empty list has a next step until it has returned.
C13_EmptyOutcomeIsNotAnError ==
    /\ FuzzyRan =>
          ((candidates = << >> \/ NoneClearsFuzzy(variations[vi]))
              => fuzzy_matches = << >>)
    /\ PhoneticRan =>
          ((candidates = << >> \/ NoneClearsPhonetic(variations[vi - 1]))
              => phonetic_matches = << >>)
    /\ Returned => ((candidates = << >> \/ NoneClears) => results = << >>)
    /\ candidates = << >> => (Returned \/ ENABLED Next)

\* C13 happens: both matchers have run on a list of candidates that is not
\* empty, none cleared a threshold, and smart_match returned the empty list
C13_Witness ==
    /\ Returned
    /\ candidates # << >>
    /\ FuzzyEnabled(use_fuzzy, Config)
    /\ PhoneticEnabled(use_phonetic, Config)
    /\ NoneClears
    /\ fuzzy_matches = << >>
    /\ phonetic_matches = << >>
    /\ results = << >>

----------------------------------------------------------------------------
(* The text helpers called directly: handle_compound_words and             *)
(* expand_abbreviations, each applied to a text of Texts; the result of    *)
(* expand_abbreviations can be passed to it once more.                     *)

Texts ==
    { << >>,
      << "P","e","r","t","h" >>,
      << "N","e","w","t","o","n" >>,
      << "N","e","w","t","o","w","n" >>,
      << "N","e","w","c","a","s","t","l","e" >>,
      << "n","e","w","c","a","s","t","l","e" >>,
      << "N","E","W","C","A","S","T","L","E" >>,
      << "N","e","w","p","o","r","t" >>,
      << "N","o","r","t","h","a","m" >>,
      << "S","o","u","t","h","p","o","r","t" >>,
      << "E","a","s","t","w","o","o","d" >>,
      << "W","e","s","t","m","e","a","d" >>,
      << "U","p","p","e","r","b","y" >>,
      << "L","o","w","e","r","b","y" >>,
      << "P","o","r","t","l","a","n","d" >>,
      << "M","o","u","n","t","a","i","n" >>,
      << "B","r","i","s","b","a","n","e" >>,
      << "N","e","w"," ","T","o","w","n" >>,
      << "N","e","w"," "," ","T","o","w","n" >>,
      << " ","N","e","w"," ","T","o","w","n" >>,
      << "N","e","w","t","o","w","n"," " >>,
      << "N","e","w"," ","C","a","s","t","l","e"," ","E","a","s","t" >>,
      << "P","o","r","t","\t","H","e","d","l","a","n","d" >>,
      << "M","t"," ","E","b","a" >>,
      << "m","t"," ","e","b","a" >>,
      << "M","T"," ","E","B","A" >>,
      << "M","t","n"," ","V","i","e","w" >>,
      << "S","t"," ","K","i","l","d","a"," ","E" >>,
      << "N","t","h"," ","S","t","h"," ","W" >>,
      << "P","t"," "," ","P","k" >>,
      << "C","k"," ","H","t","s"," ","J","c","t"," ","C","t","r"," ","S","q" >>,
      << "E","a","s","t" >>,
      << "M","o","u","n","t"," ","S","a","i","n","t" >>,
      << " ","M","t"," " >>,
      << "M","t","\t","E","b","a" >>,
      << "e" >>,
      << "S","t","o","n","e" >>,
      << "M","t","s"," ","W" >> }

\* the most calls made on one text
MaxCalls == 2

smartVars ==
    << query, candidates, use_fuzzy, use_phonetic, Config, pc, variations, vi,
       fuzzy_matches, phonetic_matches, all_matches, results >>

\* no call of smart_match is under way
NoSmartMatchCall ==
    /\ query = << >>
    /\ candidates = << >>
    /\ use_fuzzy = FALSE
    /\ use_phonetic = FALSE
    /\ Config = DefaultConfig
    /\ pc = "idle"
    /\ variations = << >>
    /\ vi = 0
    /\ fuzzy_matches = << >>
    /\ phonetic_matches = << >>
    /\ all_matches = << >>
    /\ results = << >>

TextInit ==
    /\ input_text \in Texts
    /\ called = "none"
    /\ returned = << >>
    /\ calls = 0
    /\ NoSmartMatchCall
    /\ NoToolCall
    /\ NoServiceCall

\* variations = handle_compound_words(text)
Call_handle_compound_words ==
    /\ called = "none"
    /\ calls = 0
    /\ returned' = handle_compound_words(input_text)
    /\ called' = "handle_compound_words"
    /\ calls' = 1
    /\ UNCHANGED << input_text, smartVars, toolVars, serviceVars >>

\* expanded = expand_abbreviations(text)
Call_expand_abbreviations ==
    /\ called = "none"
    /\ calls < MaxCalls
    /\ returned' = expand_abbreviations(input_text)
    /\ called' = "expand_abbreviations"
    /\ calls' = calls + 1
    /\ UNCHANGED << input_text, smartVars, toolVars, serviceVars >>

\* the text expand_abbreviations returned becomes the argument of a further
\* call
PassBack ==
    /\ called = "expand_abbreviations"
    /\ calls < MaxCalls
    /\ input_text' = returned
    /\ called' = "none"
    /\ UNCHANGED << returned, calls, smartVars, toolVars, serviceVars >>

TextNext ==
    \/ Call_handle_compound_words
    \/ Call_expand_abbreviations
    \/ PassBack

TextSpec == TextInit /\ [][TextNext]_vars

----------------------------------------------------------------------------
(* validation_tools.py: find_similar_suburbs, over the store of            *)
(* database.py.  A row of the table postcodes is a record (locality,       *)
(* state, postcode); the other columns play no part.  The texts of the     *)
(* returned dictionary that are formatted from its other entries           *)
(* ("suggestion", "validation_notes") are left out.                        *)

\* the keys of Config.STATES
STATES ==
    { << "N","S","W" >>, << "V","I","C" >>, << "Q","L","D" >>, << "S","A" >>,
      << "W","A" >>, << "T","A","S" >>, << "N","T" >>, << "A","C","T" >> }

\* the rows of a set in ascending order of postcode
RECURSIVE OrderByPostcode(_)
OrderByPostcode(rows) ==
    IF rows = {} THEN << >>
    ELSE LET first == CHOOSE r \in rows : \A o \in rows : r.postcode <= o.postcode
         IN  << first >> \o OrderByPostcode(rows \ {first})

\* db.search_by_suburb(suburb, state): the rows whose locality equals the
\* name when both are lowercased, of the state if one is given
search_by_suburb(rows, suburb, st) ==
    OrderByPostcode({r \in rows :
                        /\ lower(r.locality) = lower(suburb)
                        /\ (st # << >> => r.state = upper(st))})

\* the elements of a set of texts, in some order
RECURSIVE SeqOf(_)
SeqOf(S) ==
    IF S = {} THEN << >>
    ELSE LET x == CHOOSE y \in S : TRUE IN << x >> \o SeqOf(S \ {x})

\* db.get_all_suburbs(state): the distinct localities, of the state if one
\* is given, in ascending order
get_all_suburbs(rows, st) ==
    sorted(SeqOf({r.locality : r \in {o \in rows : st # << >> => o.state = upper(st)}}))

\* threshold or Config.FUZZY_THRESHOLD; no threshold (None) is written 0
EffectiveThreshold(t, cfg) == IF t = 0 THEN cfg.FUZZY_THRESHOLD ELSE t

\* the threshold of the loose stage handed on unchanged: a faulty variant
LooseThreshold_unscaled(t) == t

\* threshold * 0.7
LooseThreshold(t) == (7 * t) \div 10

\* the entry of "suggestions" for one match, given the rows of its suburb;
\* "states" is list(set(...)), whose order Python does not fix: a set here
Suggestion(match, details) ==
    [suburb     |-> match.match,
     confidence |-> match.confidence,
     match_type |-> IF "match_type" \in DOMAIN match THEN match.match_type ELSE "fuzzy",
     postcodes  |-> [i \in 1..Len(details) |-> details[i].postcode],
     states     |-> {details[i].state : i \in 1..Len(details)}]

\* the loop of lines 91-101: an entry for each match the store has rows for
RECURSIVE Suggestions(_, _, _)
Suggestions(found, rows, st) ==
    IF found = << >> THEN << >>
    ELSE LET suburb_details == search_by_suburb(rows, Head(found).match, st)
         IN  (IF suburb_details # << >>
              THEN << Suggestion(Head(found), suburb_details) >>
              ELSE << >>)
             \o Suggestions(Tail(found), rows, st)

\* the stores of the model
n_NT  == << "N","T" >>
n_WA  == << "W","A" >>
n_TAS == << "T","A","S" >>
n_SA  == << "S","A" >>

Db_towns ==
    { [locality |-> n_Darwin,  state |-> n_NT,  postcode |-> 800],
      [locality |-> n_Darwine, state |-> n_NT,  postcode |-> 801],
      [locality |-> n_Perth,   state |-> n_WA,  postcode |-> 6000],
      [locality |-> n_Perth,   state |-> n_TAS, postcode |-> 7300],
      [locality |-> n_Hh,      state |-> n_WA,  postcode |-> 6999] }

Db_mounts ==
    { [locality |-> n_MountEba,       state |-> n_SA, postcode |-> 5719],
      [locality |-> n_Mount_Eba("a"), state |-> n_SA, postcode |-> 5720],
      [locality |-> n_Mount_Eba("e"), state |-> n_SA, postcode |-> 5721],
      [locality |-> n_Mount_Eba("i"), state |-> n_SA, postcode |-> 5722],
      [locality |-> n_Mount_Eba("o"), state |-> n_SA, postcode |-> 5723],
      [locality |-> n_Mount_Eba("u"), state |-> n_SA, postcode |-> 5724],
      [locality |-> n_Mount_Eba("y"), state |-> n_SA, postcode |-> 5725],
      [locality |-> n_Darwin,         state |-> n_NT, postcode |-> 800] }

Stores == { Db_towns, Db_mounts }

\* the state argument: none, a state as typed, a state in capitals, a text
\* that is no state
StateArgs == { << >>, << " ","n","t" >>, n_WA, n_SA, << "Z","Z" >> }

\* the threshold argument in thousandths: none (0), and four values
ThresholdArgs == { 0, 700, 900, 950, 1000 }

ToolConfigs == { DefaultConfig, [DefaultConfig EXCEPT !.FUZZY_THRESHOLD = 900] }

ToolInit ==
    /\ misspelled \in Misspellings
    /\ state \in StateArgs
    /\ caller_threshold \in ThresholdArgs
    /\ db \in Stores
    /\ Config \in ToolConfigs
    /\ stage = "called"
    /\ tool_matches = << >>
    /\ stages_run = << >>
    /\ response = [status |-> "none"]
    /\ query = << >>
    /\ candidates = << >>
    /\ use_fuzzy = FALSE
    /\ use_phonetic = FALSE
    /\ pc = "idle"
    /\ variations = << >>
    /\ vi = 0
    /\ fuzzy_matches = << >>
    /\ phonetic_matches = << >>
    /\ all_matches = << >>
    /\ results = << >>
    /\ NoTextCall
    /\ NoServiceCall

\* lines 34-45: trim the name, settle the threshold, check the state
Prepare ==
    /\ stage = "called"
    /\ misspelled' = strip(misspelled)
    /\ caller_threshold' = EffectiveThreshold(caller_threshold, Config)
    /\ IF state # << >>
       THEN /\ state' = upper(strip(state))
            /\ IF upper(strip(state)) \notin STATES
               THEN /\ response' = [status |-> "error", error |-> "Invalid state"]
                    /\ stage' = "done"
               ELSE /\ stage' = "lookup"
                    /\ UNCHANGED response
       ELSE /\ stage' = "lookup"
            /\ UNCHANGED << state, response >>
    /\ UNCHANGED << db, tool_matches, stages_run, smartVars, textVars, serviceVars >>

\* lines 49-59: the name is in the store
ExactLookup ==
    /\ stage = "lookup"
    /\ LET exact_results == search_by_suburb(db, misspelled, state)
       IN  IF exact_results # << >>
           THEN /\ response' = [status         |-> "success",
                                exact_match    |-> TRUE,
                                confidence     |-> << 1, 1 >>,
                                primary_result |-> exact_results[1],
                                all_results    |-> exact_results]
                /\ stage' = "done"
           ELSE /\ stage' = "strict"
                /\ UNCHANGED response
    /\ UNCHANGED << misspelled, state, caller_threshold, db, tool_matches, stages_run,
                    smartVars, textVars, serviceVars >>

\* lines 61-70: smart_match with both strategies on all the suburbs
StrictStage ==
    /\ stage = "strict"
    /\ LET all_suburbs == get_all_suburbs(db, state)
           found == smart_match(misspelled, all_suburbs, TRUE, TRUE, Config)
       IN  /\ tool_matches' = found
           /\ stages_run' = Append(stages_run, [stage |-> "strict", found |-> found])
    /\ stage' = "strict_done"
    /\ UNCHANGED << misspelled, state, caller_threshold, db, response,
                    smartVars, textVars, serviceVars >>

\* lines 72-79: nothing found; find_best_matches alone at threshold * 0.7
LooseStage ==
    /\ stage = "strict_done"
    /\ tool_matches = << >>
    /\ LET all_suburbs == get_all_suburbs(db, state)
           found == find_best_matches(misspelled, all_suburbs,
                                      LooseThreshold(caller_threshold),
                                      Config.MAX_SUGGESTIONS)
       IN  /\ tool_matches' = found
           /\ stages_run' = Append(stages_run, [stage |-> "loose", found |-> found])
    /\ stage' = "loose_done"
    /\ UNCHANGED << misspelled, state, caller_threshold, db, response,
                    smartVars, textVars, serviceVars >>

\* lines 81-88: still nothing found
GiveUp ==
    /\ stage = "loose_done"
    /\ tool_matches = << >>
    /\ response' = [status      |-> "error",
                    exact_match |-> FALSE,
                    confidence  |-> << 0, 1 >>,
                    error       |-> "No similar suburbs found"]
    /\ stage' = "done"
    /\ UNCHANGED << misspelled, state, caller_threshold, db, tool_matches, stages_run,
                    smartVars, textVars, serviceVars >>

\* lines 90-118: the suggestions for the matches found
Suggest ==
    /\ stage \in {"strict_done", "loose_done"}
    /\ tool_matches # << >>
    /\ LET suggestions == Suggestions(tool_matches, db, state)
       IN  response' = [status      |-> "success",
                        exact_match |-> FALSE,
                        confidence  |-> IF suggestions # << >>
                                        THEN suggestions[1].confidence ELSE << 0, 1 >>,
                        suggestions |-> suggestions,
                        query       |-> misspelled]
    /\ stage' = "done"
    /\ UNCHANGED << misspelled, state, caller_threshold, db, tool_matches, stages_run,
                    smartVars, textVars, serviceVars >>

ToolNext ==
    \/ Prepare
    \/ ExactLookup
    \/ StrictStage
    \/ LooseStage
    \/ GiveUp
    \/ Suggest

ToolSpec == ToolInit /\ [][ToolNext]_vars

----------------------------------------------------------------------------
(* Properties of handle_compound_words                                     *)

\* handle_compound_words has returned
VariationsReturned == called = "handle_compound_words"

\* C14 - variant generator head: for every input text,
\* handle_compound_words returns a list that is not empty and whose first
\* element is the input itself, unchanged.
C14_FirstVariationIsTheInput ==
    VariationsReturned => (returned # << >> /\ returned[1] = input_text)

\* C14 happens: handle_compound_words returned for a text that trimming
\* would change, with further variations behind the text itself
C14_Witness ==
    /\ VariationsReturned
    /\ strip(input_text) # input_text
    /\ Len(returned) > 1
    /\ returned[1] = input_text

\* no string occurs twice in the list
NoDuplicates(list) ==
    \A i \in 1..Len(list) : \A j \in 1..Len(list) : i # j => list[i] # list[j]

\* C15 - variant generator deduplication: for every input text, the list
\* handle_compound_words returns contains no string twice, also for an
\* input of two words, whose form without whitespace and whose
\* concatenation of the two words coincide.
C15_NoVariationTwice == VariationsReturned => NoDuplicates(returned)

\* C15's case happens: handle_compound_words returned several variations
\* for an input of more than one word, no two of them equal
C15_Witness ==
    /\ VariationsReturned
    /\ Len(split(input_text)) > 1
    /\ Len(returned) > 1
    /\ NoDuplicates(returned)

\* the text contains whitespace
HasWhitespace(s) == \E i \in 1..Len(s) : IsSpace(s[i])

\* the entries of the prefix list the text starts with, ignoring case
MatchingPatterns(s) ==
    {k \in 1..Len(patterns) : startswith(lower(s), lower(patterns[k][1]))}

\* the number of variations handle_compound_words builds from the words of
\* the text: the text, its words joined, and the two words of a two-word
\* text joined once more
JoinedCount(s) ==
    1 + (IF Len(split(s)) > 1 THEN 1 ELSE 0) + (IF Len(split(s)) = 2 THEN 1 ELSE 0)

\* the split variant handle_compound_words builds for entry k of the list
SplitBy(s, k) ==
    SubSeq(s, 1, patterns[k][2]) \o << " " >> \o SubSeq(s, patterns[k][2] + 1, Len(s))

\* C16 - single split variant: for an input with no whitespace and length
\* > 6, handle_compound_words appends at most one prefix-split variant,
\* the one for the first entry of the prefix list that the input starts
\* with, ignoring case; it appends none when no prefix matches, when the
\* input is shorter or when it contains whitespace.
C16_AtMostOneSplitVariant ==
    VariationsReturned =>
        IF /\ Len(input_text) > 6
           /\ ~HasWhitespace(input_text)
           /\ MatchingPatterns(input_text) # {}
        THEN /\ Len(returned) = JoinedCount(input_text) + 1
             /\ returned[Len(returned)] =
                   SplitBy(input_text,
                           CHOOSE k \in MatchingPatterns(input_text) :
                               \A h \in MatchingPatterns(input_text) : k <= h)
        ELSE Len(returned) = JoinedCount(input_text)

\* C16's case happens: handle_compound_words appended one split variant to
\* a text of more than six characters without whitespace
C16_Witness ==
    /\ VariationsReturned
    /\ Len(input_text) > 6
    /\ ~HasWhitespace(input_text)
    /\ MatchingPatterns(input_text) # {}
    /\ Len(returned) = 2

\* handle_compound_words appended a split variant: the text is longer than
\* six characters, holds no space and starts with a prefix of the list
SplitAppended ==
    /\ VariationsReturned
    /\ Len(input_text) > 6
    /\ ~HasSpace(input_text)
    /\ MatchingPatterns(input_text) # {}

\* C17 - split position: the number paired with each prefix is the
\* prefix's length in characters, so the split variant is the input with
\* one space inserted immediately after the matched prefix: the text
\* before the space equals the prefix, ignoring case.
C17_SplitRightAfterThePrefix ==
    SplitAppended =>
        \A k \in MatchingPatterns(input_text) :
            LET n == Len(patterns[k][1])
            IN  /\ patterns[k][2] = n
                /\ \E v \in 1..Len(returned) :
                      /\ returned[v] = SubSeq(input_text, 1, n) \o << " " >>
                                          \o SubSeq(input_text, n + 1, Len(input_text))
                      /\ lower(SubSeq(returned[v], 1, n)) = lower(patterns[k][1])
                      /\ returned[v][n + 1] = " "

\* C17's case happens: a split variant has been appended whose space
\* stands immediately after the matched prefix
C17_Witness ==
    /\ SplitAppended
    /\ \E k \in MatchingPatterns(input_text) :
          LET n == Len(patterns[k][1])
              v == returned[Len(returned)]
          IN  /\ patterns[k][2] = n
              /\ lower(SubSeq(v, 1, n)) = lower(patterns[k][1])
              /\ v[n + 1] = " "
              /\ SubSeq(v, n + 2, Len(v)) = SubSeq(input_text, n + 1, Len(input_text))

----------------------------------------------------------------------------
(* Properties of expand_abbreviations                                      *)

\* expand_abbreviations has returned
ExpansionReturned == called = "expand_abbreviations"

\* the keys of the table that equal the token, ignoring case
KeysFor(token) ==
    {k \in 1..Len(ABBREVIATIONS) : lower(ABBREVIATIONS[k][1]) = lower(token)}

\* C18 - abbreviation expander: expand_abbreviations replaces a
\* whitespace-delimited token by its expansion exactly when the whole
\* token equals a key of the table, ignoring case, and leaves every other
\* token unchanged, also one that starts with a key; the number and the
\* order of the tokens are kept; no expansion is itself a key, and
\* expanding a text that expand_abbreviations returned gives that text
\* again.
C18_WholeTokensExpandedOnce ==
    ExpansionReturned =>
        LET tokens   == split(input_text)
            expanded == split(returned)
        IN  /\ Len(expanded) = Len(tokens)
            /\ \A i \in 1..Len(tokens) :
                  IF KeysFor(tokens[i]) # {}
                  THEN \E k \in KeysFor(tokens[i]) : expanded[i] = ABBREVIATIONS[k][2]
                  ELSE expanded[i] = tokens[i]
            /\ \A i \in 1..Len(expanded) : KeysFor(expanded[i]) = {}
            /\ \A k \in 1..Len(ABBREVIATIONS) : KeysFor(ABBREVIATIONS[k][2]) = {}
            /\ calls > 1 => returned = input_text

\* C18 happens: expand_abbreviations replaced a token that equals a key
\* only when case is ignored, and kept a longer token that starts with a
\* key
C18_Witness ==
    /\ ExpansionReturned
    /\ \E i \in 1..Len(split(input_text)) :
          /\ KeysFor(split(input_text)[i]) # {}
          /\ \A k \in 1..Len(ABBREVIATIONS) : ABBREVIATIONS[k][1] # split(input_text)[i]
          /\ split(returned)[i] # split(input_text)[i]
    /\ \E j \in 1..Len(split(input_text)) :
          /\ \E k \in 1..Len(ABBREVIATIONS) :
                /\ startswith(lower(split(input_text)[j]), lower(ABBREVIATIONS[k][1]))
                /\ Len(split(input_text)[j]) > Len(ABBREVIATIONS[k][1])
          /\ split(returned)[j] = split(input_text)[j]

----------------------------------------------------------------------------
(* Properties of find_similar_suburbs                                      *)

\* the call has returned after the lookup of the name found no row: not
\* for an invalid state, not with an exact match
ReturnedWithoutStoreHit ==
    /\ stage = "done"
    /\ ~(response.status = "error" /\ response.error = "Invalid state")
    /\ ~(response.status = "success" /\ response.exact_match)

\* what the strict stage is to return: smart_match with both strategies
StrictExpected ==
    smart_match(misspelled, get_all_suburbs(db, state), TRUE, TRUE, Config)

\* what the loose stage is to return: find_best_matches at 0.7 x threshold
LooseExpected ==
    find_best_matches(misspelled, get_all_suburbs(db, state),
                      (7 * caller_threshold) \div 10, Config.MAX_SUGGESTIONS)

\* the suggestions are the matches of the list, one for one
SuggestionsComeFrom(found) ==
    /\ Len(response.suggestions) = Len(found)
    /\ \A k \in 1..Len(found) :
          /\ response.suggestions[k].suburb = found[k].match
          /\ response.suggestions[k].confidence = found[k].confidence
          /\ response.suggestions[k].match_type =
                (IF "match_type" \in DOMAIN found[k] THEN found[k].match_type ELSE "fuzzy")

\* C19 - caller-side fallback policy of find_similar_suburbs when the store
\* has no row for the name: the strict stage (smart_match with fuzzy and
\* phonetic) is run first and once; the loose stage (fuzzy matching alone
\* at threshold x 0.7) is run, once, if and only if the strict stage
\* returned nothing; the 'no similar suburbs' error is returned if and only
\* if both stages returned nothing; and when the strict stage returned
\* something the suggestions are its matches, otherwise those of the loose
\* stage.
C19_StrictThenLooseThenGiveUp ==
    /\ stages_run # << >> =>
          /\ stages_run[1] = [stage |-> "strict", found |-> StrictExpected]
          /\ Len(stages_run) <= 2
          /\ Len(stages_run) = 2 =>
                /\ stages_run[1].found = << >>
                /\ stages_run[2] = [stage |-> "loose", found |-> LooseExpected]
    /\ stage = "done" /\ stages_run # << >> => ReturnedWithoutStoreHit
    /\ ReturnedWithoutStoreHit =>
          /\ stages_run # << >>
          /\ Len(stages_run) = 2 <=> stages_run[1].found = << >>
          /\ (response.status = "error" /\ response.error = "No similar suburbs found")
                <=> \A i \in 1..Len(stages_run) : stages_run[i].found = << >>
          /\ response.status \in {"error", "success"}
          /\ response.status = "success" =>
                SuggestionsComeFrom(stages_run[Len(stages_run)].found)

\* C19 happens: the strict stage returned nothing, the loose stage found a
\* suburb, and the call returned it as a suggestion
C19_Witness ==
    /\ ReturnedWithoutStoreHit
    /\ Len(stages_run) = 2
    /\ stages_run[1].found = << >>
    /\ stages_run[2].found # << >>
    /\ response.status = "success"
    /\ response.suggestions # << >>

\* the strict stage of the call returned matches, and the call has returned
StrictYieldedResults ==
    /\ ReturnedWithoutStoreHit
    /\ stages_run # << >>
    /\ stages_run[1].found # << >>

\* C20 - the caller's threshold is honoured: when find_similar_suburbs is
\* called with threshold t (Config.FUZZY_THRESHOLD when none is given) and
\* the strict stage yields results, every suggestion of match type 'fuzzy'
\* has confidence >= t.
C20_CallerThresholdHonoured ==
    StrictYieldedResults =>
        \A k \in 1..Len(response.suggestions) :
            response.suggestions[k].match_type = "fuzzy" =>
                1000 * response.suggestions[k].confidence[1]
                    >= caller_threshold * response.suggestions[k].confidence[2]

\* C20's case happens: a threshold other than Config.FUZZY_THRESHOLD was
\* given, the strict stage yielded results, and a suggestion of type
\* 'fuzzy' has a confidence of at least that threshold
C20_Witness ==
    /\ StrictYieldedResults
    /\ caller_threshold # Config.FUZZY_THRESHOLD
    /\ \E k \in 1..Len(response.suggestions) :
          /\ response.suggestions[k].match_type = "fuzzy"
          /\ 1000 * response.suggestions[k].confidence[1]
                >= caller_threshold * response.suggestions[k].confidence[2]

----------------------------------------------------------------------------
(* Truncation inside the strategies                                        *)

\* the loop of smart_match with neither strategy truncated: every entry
\* find_best_matches and phonetic_match compute for each variation is
\* merged
RECURSIVE UntruncatedLoop(_, _, _, _, _, _)
UntruncatedLoop(all, variants, cands, uf, up, cfg) ==
    IF variants = << >> THEN all
    ELSE LET fuzzy == IF FuzzyEnabled(uf, cfg)
                      THEN MergeFuzzy(all, find_best_matches(Head(variants), cands,
                                              cfg.FUZZY_THRESHOLD, Len(cands)))
                      ELSE all
             both  == IF PhoneticEnabled(up, cfg)
                      THEN MergePhonetic(fuzzy, phonetic_match(Head(variants), cands,
                                              cfg.PHONETIC_THRESHOLD, Len(cands)))
                      ELSE fuzzy
         IN  UntruncatedLoop(both, Tail(variants), cands, uf, up, cfg)

\* merge everything, then rank and truncate once
MergedThenRankedOnce ==
    Ranked(UntruncatedLoop(<< >>, variations, candidates, use_fuzzy, use_phonetic, Config),
           Config)

\* the entries of the merge of everything, before ranking
MergedUntruncated ==
    UntruncatedLoop(<< >>, variations, candidates, use_fuzzy, use_phonetic, Config)

\* C30 - per-strategy truncation is harmless: for every query, candidate
\* list and MAX_SUGGESTIONS, the result of smart_match equals the result
\* of merging the untruncated fuzzy and phonetic matches of all variations
\* and then ranking and truncating once; no candidate that clears a
\* threshold for some variation is left out while an entry of strictly
\* lower confidence is returned.
C30_TruncationInsideIsHarmless ==
    ReturnedRanked =>
        /\ results = MergedThenRankedOnce
        /\ \A i \in 1..Len(MergedUntruncated) :
              (\A k \in 1..Len(results) : results[k].match # MergedUntruncated[i].match)
                  => \A k \in 1..Len(results) :
                        FracGE(results[k].confidence, MergedUntruncated[i].confidence)

\* C30's case happens: a strategy returned a truncated list, and the call
\* returned what the merge of the untruncated lists gives
C30_Witness ==
    /\ ReturnedRanked
    /\ Len(MergedUntruncated) > Len(results)
    /\ Len(candidates) > Config.MAX_SUGGESTIONS
    /\ results = MergedThenRankedOnce

----------------------------------------------------------------------------
(* validation_tools.py: one call of the tool phonetic_search               *)

\* the threshold of the variations handed on unchanged: a faulty variant
VariantThreshold_unscaled(t) == t

\* Config.PHONETIC_THRESHOLD * 0.9, for thresholds that are multiples of
\* 0.01
VariantThreshold(t) == (9 * t) \div 10

\* lines 331-344: the first variation the store has rows for, 0 if none
RECURSIVE FirstVariantInStore(_, _, _)
FirstVariantInStore(rows, variants, k) ==
    IF k > Len(variants) THEN 0
    ELSE IF search_by_suburb(rows, variants[k], << >>) # << >> THEN k
    ELSE FirstVariantInStore(rows, variants, k + 1)

\* lines 356-365: the loop over variations[1:], left at the first
\* variation with phonetic matches; the last list computed
RECURSIVE VariantPhoneticLoop(_, _, _, _, _)
VariantPhoneticLoop(found, variants, k, all_suburbs, cfg) ==
    IF k > Len(variants) THEN found
    ELSE LET next == phonetic_match(variants[k], all_suburbs,
                                    VariantThreshold(cfg.PHONETIC_THRESHOLD),
                                    cfg.MAX_SUGGESTIONS)
         IN  IF next # << >> THEN next
             ELSE VariantPhoneticLoop(next, variants, k + 1, all_suburbs, cfg)

Db_voice ==
    { [locality |-> n_Newtown, state |-> << "N","S","W" >>, postcode |-> 2042],
      [locality |-> n_Newtown, state |-> << "V","I","C" >>, postcode |-> 3220],
      [locality |-> n_Alma,    state |-> << "V","I","C" >>, postcode |-> 3465],
      [locality |-> n_Ala,     state |-> n_SA,              postcode |-> 5999] }

Db_ale == { [locality |-> n_Ale, state |-> n_WA, postcode |-> 6998] }

VoiceStores == { {}, Db_towns, Db_mounts, Db_voice, Db_ale }

VoiceConfigs ==
    { DefaultConfig,
      [DefaultConfig EXCEPT !.PHONETIC_THRESHOLD = 900],
      [DefaultConfig EXCEPT !.MAX_SUGGESTIONS = 1] }

VoiceInit ==
    /\ spoken_name \in SpokenNames
    /\ db \in VoiceStores
    /\ Config \in VoiceConfigs
    /\ stage = "called"
    /\ variations = << >>
    /\ phonetic_matches = << >>
    /\ stages_run = << >>
    /\ response = [status |-> "none"]
    /\ misspelled = << >>
    /\ state = << >>
    /\ caller_threshold = 0
    /\ tool_matches = << >>
    /\ query = << >>
    /\ candidates = << >>
    /\ use_fuzzy = FALSE
    /\ use_phonetic = FALSE
    /\ pc = "idle"
    /\ vi = 0
    /\ fuzzy_matches = << >>
    /\ all_matches = << >>
    /\ results = << >>
    /\ NoTextCall
    /\ NoGeoCall
    /\ NoBootCall
    /\ NoConnCall

\* what a step of phonetic_search leaves alone
voiceRest ==
    << db, Config, misspelled, state, caller_threshold, tool_matches,
       query, candidates, use_fuzzy, use_phonetic, pc, vi, fuzzy_matches,
       all_matches, results, textVars, geoVars, bootVars, connVars >>

\* lines 310-325: trim the name; the store has rows for it
VoiceExact ==
    /\ stage = "called"
    /\ spoken_name' = strip(spoken_name)
    /\ LET exact_results == search_by_suburb(db, strip(spoken_name), << >>)
       IN  /\ stages_run' = Append(stages_run, [stage |-> "exact", found |-> exact_results])
           /\ IF exact_results # << >>
              THEN /\ response' = [status      |-> "success",
                                   exact_match |-> TRUE,
                                   confidence  |-> << 1, 1 >>,
                                   results     |-> exact_results,
                                   match_type  |-> "exact"]
                   /\ stage' = "done"
              ELSE /\ stage' = "variants"
                   /\ UNCHANGED response
    /\ UNCHANGED << variations, phonetic_matches, voiceRest >>

\* lines 327-344: the variations of the name; the store has rows for one
VoiceVariants ==
    /\ stage = "variants"
    /\ variations' = handle_compound_words(spoken_name)
    /\ LET k == FirstVariantInStore(db, handle_compound_words(spoken_name), 1)
           variant_results ==
               IF k = 0 THEN << >>
               ELSE search_by_suburb(db, handle_compound_words(spoken_name)[k], << >>)
       IN  /\ stages_run' = Append(stages_run, [stage |-> "compound_variant",
                                                found |-> variant_results])
           /\ IF k # 0
              THEN /\ response' = [status          |-> "success",
                                   exact_match     |-> TRUE,
                                   confidence      |-> << 19, 20 >>,
                                   results         |-> variant_results,
                                   match_type      |-> "compound_variant",
                                   original_query  |-> spoken_name,
                                   matched_variant |-> handle_compound_words(spoken_name)[k]]
                   /\ stage' = "done"
              ELSE /\ stage' = "phonetic"
                   /\ UNCHANGED response
    /\ UNCHANGED << spoken_name, phonetic_matches, voiceRest >>

\* lines 346-354: phonetic_match of the name on all the suburbs
VoicePhonetic ==
    /\ stage = "phonetic"
    /\ LET all_suburbs == get_all_suburbs(db, << >>)
           found == phonetic_match(spoken_name, all_suburbs,
                                   Config.PHONETIC_THRESHOLD, Config.MAX_SUGGESTIONS)
       IN  /\ phonetic_matches' = found
           /\ stages_run' = Append(stages_run, [stage |-> "phonetic", found |-> found])
    /\ stage' = "phonetic_done"
    /\ UNCHANGED << spoken_name, variations, response, voiceRest >>

\* lines 356-365: nothing found; phonetic_match of the variations after the
\* first
VoiceVariantPhonetic ==
    /\ stage = "phonetic_done"
    /\ phonetic_matches = << >>
    /\ LET all_suburbs == get_all_suburbs(db, << >>)
           found == VariantPhoneticLoop(phonetic_matches, variations, 2, all_suburbs, Config)
       IN  /\ phonetic_matches' = found
           /\ stages_run' = Append(stages_run, [stage |-> "variant_phonetic",
                                                found |-> found])
    /\ stage' = "variants_done"
    /\ UNCHANGED << spoken_name, variations, response, voiceRest >>

\* lines 367-374: still nothing found
VoiceGiveUp ==
    /\ stage = "variants_done"
    /\ phonetic_matches = << >>
    /\ response' = [status      |-> "error",
                    exact_match |-> FALSE,
                    confidence  |-> << 0, 1 >>,
                    error       |-> "No phonetic matches found"]
    /\ stage' = "done"
    /\ UNCHANGED << spoken_name, variations, phonetic_matches, stages_run, voiceRest >>

\* lines 376-403: the details of the matches found
VoiceAnswer ==
    /\ stage \in {"phonetic_done", "variants_done"}
    /\ phonetic_matches # << >>
    /\ LET found == Suggestions(phonetic_matches, db, << >>)
       IN  response' = [status           |-> "success",
                        exact_match      |-> FALSE,
                        confidence       |-> IF found # << >>
                                             THEN found[1].confidence ELSE << 0, 1 >>,
                        spoken_input     |-> spoken_name,
                        phonetic_matches |-> found]
    /\ stage' = "done"
    /\ UNCHANGED << spoken_name, variations, phonetic_matches, stages_run, voiceRest >>

VoiceNext ==
    \/ VoiceExact
    \/ VoiceVariants
    \/ VoicePhonetic
    \/ VoiceVariantPhonetic
    \/ VoiceGiveUp
    \/ VoiceAnswer

VoiceSpec == VoiceInit /\ [][VoiceNext]_vars

----------------------------------------------------------------------------
(* Properties of phonetic_search                                           *)

\* phonetic_search has returned
VoiceReturned == stage = "done" /\ response.status \in {"success", "error"}

\* the rows of the store for the spoken name
SpokenRows == search_by_suburb(db, spoken_name, << >>)

\* the places, in the variations of the spoken name, of those the store has
\* rows for
VariantsInStore ==
    { k \in 1..Len(handle_compound_words(spoken_name)) :
         search_by_suburb(db, handle_compound_words(spoken_name)[k], << >>) # << >> }

\* the phonetic matches of the spoken name at PHONETIC_THRESHOLD
SpokenPhonetic ==
    phonetic_match(spoken_name, get_all_suburbs(db, << >>),
                   Config.PHONETIC_THRESHOLD, Config.MAX_SUGGESTIONS)

\* the phonetic matches of the k-th variation at 0.9 x PHONETIC_THRESHOLD
VariantPhonetic(k) ==
    phonetic_match(handle_compound_words(spoken_name)[k], get_all_suburbs(db, << >>),
                   (9 * Config.PHONETIC_THRESHOLD) \div 10, Config.MAX_SUGGESTIONS)

\* the places of the variations after the first that have phonetic matches
VariantsYielding ==
    { k \in 2..Len(handle_compound_words(spoken_name)) : VariantPhonetic(k) # << >> }

Least(S) == CHOOSE k \in S : \A o \in S : k <= o

\* the response lists exactly the matches `found`, in their order
AnswersWith(found) ==
    /\ response.status = "success"
    /\ "phonetic_matches" \in DOMAIN response
    /\ Len(response.phonetic_matches) = Len(found)
    /\ \A k \in 1..Len(found) :
          /\ response.phonetic_matches[k].suburb = found[k].match
          /\ response.phonetic_matches[k].confidence = found[k].confidence
          /\ response.phonetic_matches[k].match_type = "phonetic"
    /\ response.confidence = found[1].confidence

\* C28 - voice search resolution order: phonetic_search answers from the
\* first stage that finds something, in the fixed order (1) rows of the
\* store for the spoken name: confidence 1.0, type 'exact'; (2) the first
\* compound-word variation, in generation order, the store has rows for:
\* confidence 0.95, type 'compound_variant'; (3) the phonetic matches of the
\* name itself at PHONETIC_THRESHOLD; (4) the phonetic matches of the first
\* variation other than the name that has any, at 0.9 x PHONETIC_THRESHOLD;
\* (5) otherwise an error.  No stage's result is returned when an earlier
\* stage found a match.
C28_FirstStageThatFindsSomething ==
    VoiceReturned =>
        IF SpokenRows # << >>
        THEN /\ response.status = "success"
             /\ "match_type" \in DOMAIN response
             /\ response.match_type = "exact"
             /\ response.confidence = << 1, 1 >>
             /\ response.results = SpokenRows
        ELSE IF VariantsInStore # {}
        THEN /\ response.status = "success"
             /\ "match_type" \in DOMAIN response
             /\ response.match_type = "compound_variant"
             /\ response.confidence = << 19, 20 >>
             /\ response.matched_variant =
                    handle_compound_words(spoken_name)[Least(VariantsInStore)]
             /\ response.results = search_by_suburb(db, response.matched_variant, << >>)
        ELSE IF SpokenPhonetic # << >>
        THEN AnswersWith(SpokenPhonetic)
        ELSE IF VariantsYielding # {}
        THEN /\ AnswersWith(VariantPhonetic(Least(VariantsYielding)))
             /\ handle_compound_words(spoken_name)[Least(VariantsYielding)] # spoken_name
        ELSE response.status = "error"

\* C28's case happens: the store has no rows for the name or a variation,
\* the name has no phonetic match, and the call answered with the phonetic
\* matches of a variation
C28_Witness ==
    /\ VoiceReturned
    /\ response.status = "success"
    /\ Len(stages_run) = 4
    /\ stages_run[1].found = << >>
    /\ stages_run[2].found = << >>
    /\ stages_run[3].found = << >>
    /\ stages_run[4].stage = "variant_phonetic"
    /\ stages_run[4].found # << >>
    /\ AnswersWith(stages_run[4].found)

----------------------------------------------------------------------------
(* database.py and location_tools.py: the operations on locations          *)
(*                                                                         *)
(* A row of the store carries latitude and longitude as << >> (NULL) or    *)
(* << v >>, v in thousandths of a degree.  Lengths are in metres.          *)

Digits == { "0","1","2","3","4","5","6","7","8","9" }

\* str.isdigit()
isdigit(t) == t # << >> /\ \A i \in 1..Len(t) : t[i] \in Digits

\* the column postcode (TEXT) of a row: four digits
PostcodeText(n) ==
    LET digit(k) == << "0","1","2","3","4","5","6","7","8","9" >>[k + 1]
    IN  << digit((n \div 1000) % 10), digit((n \div 100) % 10),
           digit((n \div 10) % 10), digit(n % 10) >>

\* ORDER BY locality
RECURSIVE OrderByLocality(_)
OrderByLocality(rows) ==
    IF rows = {} THEN << >>
    ELSE LET first == CHOOSE r \in rows :
                         \A o \in rows : o = r \/ ~StrLess(o.locality, r.locality)
         IN  << first >> \o OrderByLocality(rows \ {first})

\* db.search_by_postcode(postcode)
search_by_postcode(rows, postcode) ==
    OrderByLocality({r \in rows : PostcodeText(r.postcode) = postcode})

\* r.get('latitude') and r.get('longitude'): None and 0.0 are both false
HasCoordinates_not_none(r) == r.latitude # << >> /\ r.longitude # << >>

HasCoordinates(r) ==
    /\ r.latitude # << >> /\ r.latitude[1] # 0
    /\ r.longitude # << >> /\ r.longitude[1] # 0

\* "Use first result with coordinates": its place in the results, 0 if none
RECURSIVE FirstWithCoordinates(_, _)
FirstWithCoordinates(found, k) ==
    IF k > Len(found) THEN 0
    ELSE IF HasCoordinates(found[k]) THEN k
    ELSE FirstWithCoordinates(found, k + 1)

\* radius_km <= 0 or radius_km > 500, with zero let through: a faulty variant
InvalidRadius_zero_allowed(r) == r < 0 \/ r > 500000

\* radius_km <= 0 or radius_km > 500
InvalidRadius(r) == r <= 0 \/ r > 500000

Abs(x) == IF x < 0 THEN -x ELSE x

\* The points of the model and the value of
\* 6371 * acos(cos(rad(lat)) * cos(rad(latitude)) * cos(rad(longitude) - rad(lon))
\*             + sin(rad(lat)) * sin(rad(latitude)))
\* between them, to the metre.
P_Alba == << -33000, 151000 >>
P_Fern == << -33000, 151010 >>
P_Bora == << -33000, 151107 >>
P_Cava == << -33045, 151000 >>
P_Dune == << -34000, 151000 >>
P_Zero == << 0, 151000 >>
P_East == << 0, 151100 >>

DistanceTable ==
    { << P_Alba, P_Fern, 933 >>,     << P_Alba, P_Bora, 9978 >>,
      << P_Alba, P_Cava, 5004 >>,    << P_Alba, P_Dune, 111195 >>,
      << P_Alba, P_Zero, 3669433 >>, << P_Alba, P_East, 3669448 >>,
      << P_Fern, P_Bora, 9046 >>,    << P_Fern, P_Cava, 5090 >>,
      << P_Fern, P_Dune, 111199 >>,  << P_Fern, P_Zero, 3669433 >>,
      << P_Fern, P_East, 3669445 >>, << P_Bora, P_Cava, 11160 >>,
      << P_Bora, P_Dune, 111637 >>,  << P_Bora, P_Zero, 3669450 >>,
      << P_Bora, P_East, 3669433 >>, << P_Cava, P_Dune, 106191 >>,
      << P_Cava, P_Zero, 3674436 >>, << P_Cava, P_East, 3674451 >>,
      << P_Dune, P_Zero, 3780628 >>, << P_Dune, P_East, 3780642 >>,
      << P_Zero, P_East, 11119 >> }

\* the column distance_km of the statement
distance_km(lat, lon, latitude, longitude) ==
    IF << lat, lon >> = << latitude, longitude >> THEN 0
    ELSE LET e == CHOOSE t \in DistanceTable :
                     \/ (t[1] = << lat, lon >> /\ t[2] = << latitude, longitude >>)
                     \/ (t[2] = << lat, lon >> /\ t[1] = << latitude, longitude >>)
         IN  e[3]

\* WHERE latitude BETWEEN lat - lat_range AND lat + lat_range
\*   AND longitude BETWEEN lon - lon_range AND lon + lon_range
\*   AND latitude IS NOT NULL AND longitude IS NOT NULL,
\* with lat_range = radius_km / 111.0 and
\* lon_range = radius_km / (111.0 * abs(lat)), for lat other than 0
WhereClause(r, lat, lon, radius) ==
    /\ r.latitude # << >>
    /\ r.longitude # << >>
    /\ 111 * Abs(r.latitude[1] - lat) <= radius
    /\ 111 * Abs(lat) * Abs(r.longitude[1] - lon) <= 1000 * radius

\* HAVING distance_km <= radius_km
HavingClause(r, lat, lon, radius) ==
    distance_km(lat, lon, r.latitude[1], r.longitude[1]) <= radius

\* db.search_by_radius(lat, lon, radius_km).  Line 234 divides by
\* 111.0 * abs(lat): ZeroDivisionError for lat = 0.0.  The statement has a
\* HAVING clause and neither GROUP BY nor an aggregate, which SQLite
\* refuses when it prepares the statement, whatever the rows:
\* conn.execute raises sqlite3.OperationalError.
search_by_radius(rows, lat, lon, radius) ==
    IF lat = 0
    THEN [raised |-> "ZeroDivisionError",
          error  |-> "float division by zero",
          rows   |-> << >>]
    ELSE [raised |-> "OperationalError",
          error  |-> "HAVING clause on a non-aggregate query",
          rows   |-> << >>]

\* the rows of the stores of the model
Place(name, st, postcode, point) ==
    [locality |-> name, state |-> st, postcode |-> postcode,
     latitude |-> IF point = << >> THEN << >> ELSE << point[1] >>,
     longitude |-> IF point = << >> THEN << >> ELSE << point[2] >>]

n_NSW == << "N","S","W" >>
n_QLD == << "Q","L","D" >>

Db_geo ==
    { Place(<< "A","l","b","a" >>, n_NSW, 1999, << >>),
      Place(<< "A","l","b","a" >>, n_NSW, 2000, P_Alba),
      Place(<< "A","l","b","a" >>, n_NSW, 2001, P_Fern),
      Place(<< "B","o","r","a" >>, n_NSW, 2010, P_Bora),
      Place(<< "C","a","v","a" >>, n_NSW, 2020, P_Cava),
      Place(<< "D","u","n","e" >>, n_NSW, 2600, P_Dune),
      Place(<< "N","i","l" >>,     n_WA,  6000, << >>),
      Place(<< "Z","e","r","o" >>, n_QLD, 4000, P_Zero),
      Place(<< "E","a","s","t" >>, n_QLD, 4001, P_East) }

GeoStores == { {}, Db_geo }

Centers ==
    { << "A","l","b","a" >>, << " ","a","l","b","a"," " >>, << "2","0","0","0" >>,
      << "1","9","9","9" >>, << "N","i","l" >>, << "Z","e","r","o" >>,
      << "4","0","0","0" >>, << "E","a","s","t" >>, << "2","0","0","0","0" >> }

\* radius_km: -1, 0, 0.001, 8, 50, 500 and 500.001 km
Radii == { -1000, 0, 1, 8000, 50000, 500000, 500001 }

GeoStates == { << >>, << "n","s","w" >>, n_QLD, << "Z","Z" >> }

MaxNeighbors == { 0, 1, 10, 51 }

Points == { P_Alba, P_Fern, P_Bora, P_Cava, P_Dune, P_Zero, P_East }

GeoInit ==
    /\ operation \in {"list_suburbs_in_radius", "get_neighboring_suburbs", "search_by_radius"}
    /\ db \in GeoStores
    /\ IF operation = "search_by_radius"
       THEN /\ center = << >>
            /\ center_coords \in Points
            /\ state = << >>
       ELSE /\ center \in Centers
            /\ center_coords = << >>
            /\ state \in GeoStates
    /\ IF operation = "get_neighboring_suburbs"
       THEN radius_km = 0 /\ max_neighbors \in MaxNeighbors
       ELSE radius_km \in Radii /\ max_neighbors = 0
    /\ store_calls = << >>
    /\ nearby_results = << >>
    /\ stage = "called"
    /\ response = [status |-> "none"]
    /\ misspelled = << >>
    /\ caller_threshold = 0
    /\ tool_matches = << >>
    /\ stages_run = << >>
    /\ spoken_name = << >>
    /\ NoSmartMatchCall
    /\ NoTextCall
    /\ NoBootCall
    /\ NoConnCall

\* what a step of an operation on locations leaves alone
geoRest ==
    << operation, db, radius_km, nearby_results, misspelled, caller_threshold,
       tool_matches, stages_run, spoken_name, smartVars, textVars, bootVars,
       connVars >>

\* the response of the handler "except Exception as e"
Failed(error) == [status |-> "error", error |-> error]

\* list_suburbs_in_radius, lines 205-267: the radius and the state are
\* checked, then the store is asked for the centre
RadiusCenter ==
    /\ operation = "list_suburbs_in_radius"
    /\ stage = "called"
    /\ center' = strip(center)
    /\ UNCHANGED max_neighbors
    /\ IF InvalidRadius(radius_km)
       THEN /\ response' = Failed("Invalid radius")
            /\ stage' = "done"
            /\ UNCHANGED << state, store_calls, center_coords >>
       ELSE IF state # << >> /\ upper(strip(state)) \notin STATES
       THEN /\ response' = Failed("Invalid state")
            /\ state' = upper(strip(state))
            /\ stage' = "done"
            /\ UNCHANGED << store_calls, center_coords >>
       ELSE LET st == IF state # << >> THEN upper(strip(state)) ELSE state
                by_postcode == isdigit(strip(center)) /\ Len(strip(center)) = 4
                found == IF by_postcode
                         THEN search_by_postcode(db, strip(center))
                         ELSE search_by_suburb(db, strip(center), st)
                k == FirstWithCoordinates(found, 1)
            IN  /\ state' = st
                /\ store_calls' = store_calls \o
                      << "get_database",
                         IF by_postcode THEN "search_by_postcode" ELSE "search_by_suburb" >>
                /\ IF k = 0
                   THEN /\ response' = Failed("not found or has no coordinates")
                        /\ stage' = "done"
                        /\ UNCHANGED center_coords
                   ELSE /\ center_coords' = << found[k].latitude[1], found[k].longitude[1] >>
                        /\ stage' = "search"
                        /\ UNCHANGED response
    /\ UNCHANGED geoRest

\* get_neighboring_suburbs, lines 347-392: the state and max_neighbors are
\* checked, then the store is asked for the suburb
NeighborsCenter ==
    /\ operation = "get_neighboring_suburbs"
    /\ stage = "called"
    /\ center' = strip(center)
    /\ IF state # << >> /\ upper(strip(state)) \notin STATES
       THEN /\ response' = Failed("Invalid state")
            /\ state' = upper(strip(state))
            /\ stage' = "done"
            /\ UNCHANGED << max_neighbors, store_calls, center_coords >>
       ELSE LET st == IF state # << >> THEN upper(strip(state)) ELSE state
                found == search_by_suburb(db, strip(center), st)
                k == FirstWithCoordinates(found, 1)
            IN  /\ state' = st
                /\ max_neighbors' = IF max_neighbors < 1 \/ max_neighbors > 50
                                    THEN 10 ELSE max_neighbors
                /\ store_calls' = store_calls \o << "get_database", "search_by_suburb" >>
                /\ IF found = << >>
                   THEN /\ response' = Failed("not found")
                        /\ stage' = "done"
                        /\ UNCHANGED center_coords
                   ELSE IF k = 0
                   THEN /\ response' = Failed("No coordinates available")
                        /\ stage' = "done"
                        /\ UNCHANGED center_coords
                   ELSE /\ center_coords' = << found[k].latitude[1], found[k].longitude[1] >>
                        /\ stage' = "search"
                        /\ UNCHANGED response
    /\ UNCHANGED geoRest

\* the radius of get_neighboring_suburbs: search_radius = 8.0
SearchRadius(op, radius) == IF op = "get_neighboring_suburbs" THEN 8000 ELSE radius

\* lines 269-274 and 322-327, 394-402 and 441-446: the radius search of
\* either tool; what it raises is caught and returned as an error
ToolRadiusSearch ==
    /\ operation \in {"list_suburbs_in_radius", "get_neighboring_suburbs"}
    /\ stage = "search"
    /\ store_calls' = Append(store_calls, "search_by_radius")
    /\ response' = Failed(search_by_radius(db, center_coords[1], center_coords[2],
                                           SearchRadius(operation, radius_km)).error)
    /\ stage' = "done"
    /\ UNCHANGED << center, state, max_neighbors, center_coords, geoRest >>

\* Database.search_by_radius called by itself
DirectRadiusSearch ==
    /\ operation = "search_by_radius"
    /\ stage = "called"
    /\ store_calls' = Append(store_calls, "search_by_radius")
    /\ response' = search_by_radius(db, center_coords[1], center_coords[2], radius_km)
    /\ stage' = "done"
    /\ UNCHANGED << center, state, max_neighbors, center_coords, geoRest >>

GeoNext ==
    \/ RadiusCenter
    \/ NeighborsCenter
    \/ ToolRadiusSearch
    \/ DirectRadiusSearch

GeoSpec == GeoInit /\ [][GeoNext]_vars

----------------------------------------------------------------------------
(* location_tools.py: the grouping of the rows of a radius search          *)
(*                                                                         *)
(* Lines 276-302 of list_suburbs_in_radius and 404-435 of                  *)
(* get_neighboring_suburbs, applied to sequences of rows.  A row carries   *)
(* distance_km as search_by_radius rounds it, in hundredths of a           *)
(* kilometre; the distance of a suburb returned is in tenths.              *)

\* the place of the key in the dictionary, 0 if it is not there
GroupIndex(groups, row) ==
    IF \E i \in 1..Len(groups) :
          groups[i].suburb = row.locality /\ groups[i].state = row.state
    THEN CHOOSE i \in 1..Len(groups) :
            groups[i].suburb = row.locality /\ groups[i].state = row.state
    ELSE 0

\* "Keep minimum distance", the first distance kept instead: a faulty variant
KeepMinimum_first(current, distance) == current

\* if result.get('distance_km', 0) < ...["distance_km"]: take it
KeepMinimum(current, distance) == IF distance < current THEN distance ELSE current

\* the loop over the rows: suburbs_dict / neighbors_dict in insertion
\* order; `skipped` is the suburb get_neighboring_suburbs leaves out,
\* << >> for list_suburbs_in_radius
RECURSIVE GroupLoop(_, _, _)
GroupLoop(groups, rows, skipped) ==
    IF rows = << >> THEN groups
    ELSE LET row == Head(rows)
             i   == GroupIndex(groups, row)
             entered ==
                 IF i = 0
                 THEN Append(groups, [suburb      |-> row.locality,
                                      state       |-> row.state,
                                      postcodes   |-> {},
                                      distance_km |-> row.distance_km])
                 ELSE groups
             j   == IF i = 0 THEN Len(entered) ELSE i
         IN  IF skipped # << >> /\ lower(row.locality) = lower(skipped)
             THEN GroupLoop(groups, Tail(rows), skipped)
             ELSE GroupLoop(
                     [entered EXCEPT ![j] =
                         [@ EXCEPT !.postcodes = @ \cup {row.postcode},
                                   !.distance_km = KeepMinimum(@, row.distance_km)]],
                     Tail(rows), skipped)

\* sorted(list(postcodes))
RECURSIVE SortedPostcodes(_)
SortedPostcodes(S) ==
    IF S = {} THEN << >>
    ELSE LET least == CHOOSE x \in S : \A y \in S : x <= y
         IN  << least >> \o SortedPostcodes(S \ {least})

\* the distances of the model ending in 5 hundredths that round() takes
\* down, their doubles lying below the decimal written
HalvesRoundedDown == { 115, 125 }

\* round(distance_km, 1), from hundredths to tenths
Round1(h) ==
    IF h % 10 = 5
    THEN (IF h \in HalvesRoundedDown THEN h \div 10 ELSE h \div 10 + 1)
    ELSE (h + 5) \div 10

\* the list left unsorted: a faulty variant
SortByDistance_omitted(suburbs) == suburbs

\* list.sort(key=lambda x: x["distance_km"]): ascending, equal keys in
\* their original order
SortByDistance(suburbs) ==
    LET ord == StableOrderDesc([k \in 1..Len(suburbs) |-> << -suburbs[k].distance_km, 1 >>])
    IN  [k \in 1..Len(suburbs) |-> suburbs[ord[k]]]

\* "Convert to list" and "Sort by distance"
NearbySuburbs(groups) ==
    SortByDistance([k \in 1..Len(groups) |->
                      [suburb      |-> groups[k].suburb,
                       state       |-> groups[k].state,
                       postcodes   |-> SortedPostcodes(groups[k].postcodes),
                       distance_km |-> Round1(groups[k].distance_km)]])

\* the rows a search may deliver
Row(name, st, postcode, distance) ==
    [locality |-> name, state |-> st, postcode |-> postcode, distance_km |-> distance]

n_Bora == << "B","o","r","a" >>
n_Cava == << "C","a","v","a" >>

DeliveredRows ==
    { Row(n_Bora, n_NSW, 2010, 104), Row(n_Bora, n_NSW, 2011, 102),
      Row(n_Bora, n_NSW, 2011, 105), Row(n_Bora, n_QLD, 4010, 115),
      Row(n_Cava, n_NSW, 2020, 103), Row(n_Cava, n_NSW, 2021, 0),
      Row(n_Cava, n_NSW, 2020, 125), Row(<< "c","a","v","a" >>, n_QLD, 4020, 98) }

\* the longest sequence of rows
MaxRows == 3

GroupInit ==
    /\ operation \in {"list_suburbs_in_radius", "get_neighboring_suburbs"}
    /\ nearby_results \in SeqsUpTo(DeliveredRows, MaxRows)
    /\ IF operation = "get_neighboring_suburbs"
       THEN center \in {n_Cava, << "D","u","n","e" >>} /\ max_neighbors \in {1, 2, 10}
       ELSE center = << >> /\ max_neighbors = 0
    /\ stage = "grouping"
    /\ response = [status |-> "none"]
    /\ radius_km = 0
    /\ store_calls = << >>
    /\ center_coords = << >>
    /\ db = {}
    /\ state = << >>
    /\ misspelled = << >>
    /\ caller_threshold = 0
    /\ tool_matches = << >>
    /\ stages_run = << >>
    /\ spoken_name = << >>
    /\ NoSmartMatchCall
    /\ NoTextCall
    /\ NoBootCall
    /\ NoConnCall

groupRest ==
    << operation, center, radius_km, max_neighbors, store_calls, center_coords,
       nearby_results, db, state, misspelled, caller_threshold, tool_matches,
       stages_run, spoken_name, smartVars, textVars, bootVars, connVars >>

\* list_suburbs_in_radius, lines 276-320
GroupRadius ==
    /\ operation = "list_suburbs_in_radius"
    /\ stage = "grouping"
    /\ response' = [status  |-> "success",
                    suburbs |-> NearbySuburbs(GroupLoop(<< >>, nearby_results, << >>))]
    /\ stage' = "done"
    /\ UNCHANGED groupRest

\* get_neighboring_suburbs, lines 404-439
GroupNeighbors ==
    /\ operation = "get_neighboring_suburbs"
    /\ stage = "grouping"
    /\ response' = [status  |-> "success",
                    suburbs |-> Take(NearbySuburbs(GroupLoop(<< >>, nearby_results, center)),
                                     max_neighbors)]
    /\ stage' = "done"
    /\ UNCHANGED groupRest

GroupNext ==
    \/ GroupRadius
    \/ GroupNeighbors

GroupSpec == GroupInit /\ [][GroupNext]_vars

----------------------------------------------------------------------------
(* server.py: initialize_database, with DataLoader.run                     *)

\* db.get_statistics()['total_records']: SELECT COUNT(*) FROM postcodes;
\* the statement raises sqlite3.OperationalError (no such table) when the
\* file has no schema
get_statistics(file, records) ==
    IF file = "schema"
    THEN [raised |-> "", total_records |-> records]
    ELSE [raised |-> "OperationalError", total_records |-> 0]

\* stats['total_records'] > 0
HasData(stats) == stats.total_records > 0

StoreStates ==
    { << "missing", 0 >>, << "no_schema", 0 >>, << "schema", 0 >>,
      << "schema", 1 >>, << "schema", 3 >> }

CsvSizes == { 1, 2, 3 }

BootInit ==
    /\ \E st \in StoreStates :
          /\ store_file = st[1]
          /\ store_records = st[2]
          /\ store_at_start = st[2]
    /\ data_dir \in BOOLEAN
    /\ (store_file # "missing" => data_dir)
    /\ download_ok \in BOOLEAN
    /\ load_ok \in BOOLEAN
    /\ csv_records \in CsvSizes
    /\ boot_pc = "called"
    /\ loader_ran = FALSE
    /\ boot_result = "none"
    /\ NoSmartMatchCall
    /\ NoTextCall
    /\ NoToolCall
    /\ spoken_name = << >>
    /\ NoGeoCall
    /\ NoConnCall

bootRest ==
    << store_at_start, download_ok, load_ok, csv_records,
       smartVars, textVars, toolVars, spoken_name, geoVars, connVars >>

\* server.py line 353: db = await get_database(); aiosqlite.connect makes
\* the file when there is none, and raises when its directory is missing
BootConnect ==
    /\ boot_pc = "called"
    /\ IF ~data_dir
       THEN /\ boot_result' = "False"
            /\ boot_pc' = "done"
            /\ UNCHANGED store_file
       ELSE /\ store_file' = IF store_file = "missing" THEN "no_schema" ELSE store_file
            /\ boot_pc' = "statistics"
            /\ UNCHANGED boot_result
    /\ UNCHANGED << store_records, data_dir, loader_ran, bootRest >>

\* server.py lines 354-358 and 368-370: the statistics; ready when there
\* are records, False when the statement raises
BootStatistics ==
    /\ boot_pc = "statistics"
    /\ LET stats == get_statistics(store_file, store_records)
       IN  IF stats.raised # ""
           THEN boot_result' = "False" /\ boot_pc' = "done"
           ELSE IF HasData(stats)
           THEN boot_result' = "True" /\ boot_pc' = "done"
           ELSE boot_pc' = "loader" /\ UNCHANGED boot_result
    /\ UNCHANGED << store_file, store_records, data_dir, loader_ran, bootRest >>

\* server.py lines 361-363, data_loader.py lines 28-31 and 206-212: the
\* loader is made and run; it returns at once when its own look at the
\* store finds records
LoaderCheck ==
    /\ boot_pc = "loader"
    /\ loader_ran' = TRUE
    /\ data_dir' = TRUE
    /\ LET stats == get_statistics(store_file, store_records)
       IN  IF store_file # "missing" /\ stats.raised # ""
           THEN boot_result' = "False" /\ boot_pc' = "done"
           ELSE IF store_file # "missing" /\ HasData(stats)
           THEN boot_result' = "True" /\ boot_pc' = "done"
           ELSE boot_pc' = "download" /\ UNCHANGED boot_result
    /\ UNCHANGED << store_file, store_records, bootRest >>

\* data_loader.py lines 214-215 and 228-232: download_data; what it raises
\* is raised again, and initialize_database returns False
LoaderDownload ==
    /\ boot_pc = "download"
    /\ IF download_ok
       THEN boot_pc' = "load" /\ UNCHANGED boot_result
       ELSE boot_result' = "False" /\ boot_pc' = "done"
    /\ UNCHANGED << store_file, store_records, data_dir, loader_ran, bootRest >>

\* data_loader.py lines 217-221: parse_csv and load_data (init_schema, the
\* rows deleted, the records inserted and committed)
LoaderLoad ==
    /\ boot_pc = "load"
    /\ IF load_ok
       THEN /\ store_file' = "schema"
            /\ store_records' = csv_records
            /\ boot_pc' = "verify"
            /\ UNCHANGED boot_result
       ELSE /\ boot_result' = "False"
            /\ boot_pc' = "done"
            /\ UNCHANGED << store_file, store_records >>
    /\ UNCHANGED << data_dir, loader_ran, bootRest >>

\* data_loader.py lines 223-232 and server.py lines 365-366: verify_data,
\* the loader disconnects, initialize_database returns True
LoaderVerify ==
    /\ boot_pc = "verify"
    /\ boot_result' = "True"
    /\ boot_pc' = "done"
    /\ UNCHANGED << store_file, store_records, data_dir, loader_ran, bootRest >>

BootNext ==
    \/ BootConnect
    \/ BootStatistics
    \/ LoaderCheck
    \/ LoaderDownload
    \/ LoaderLoad
    \/ LoaderVerify

BootSpec == BootInit /\ [][BootNext]_vars

\* initialize_database has returned
BootReturned == boot_pc = "done"

\* C27 - first-run initialisation: starting from any state of the store -
\* no database file, a file without schema, a schema with zero records, or
\* a populated store - initialize_database ends with a populated store and
\* returns True provided download and load succeed; in particular the data
\* loader is run whenever the store holds no records, and is not run when
\* it already holds records.
C27_FirstRunEndsPopulated ==
    BootReturned =>
        /\ (download_ok /\ load_ok) => (store_records > 0 /\ boot_result = "True")
        /\ (store_at_start = 0) => loader_ran
        /\ (store_at_start > 0) => ~loader_ran

\* C27's case happens: from a schema with zero records the loader was run
\* and the call returned True with the store populated
C27_Witness ==
    /\ BootReturned
    /\ store_at_start = 0
    /\ loader_ran
    /\ store_records > 0
    /\ boot_result = "True"


----------------------------------------------------------------------------
(* database.py: get_database, Database.connect and get_connection under    *)
(* concurrent tool calls                                                   *)
(*                                                                         *)
(* The tool calls are tasks of one event loop: a task runs alone from one  *)
(* await that suspends to the next.  aiosqlite.connect and the PRAGMA      *)
(* statements suspend; each action below is one such stretch.              *)

\* the most tasks
MaxTasks == 3

Tasks == 1..MaxTasks

ConnInit ==
    /\ database_instance = "None"
    /\ connection = 0
    /\ opened = 0
    /\ \E n \in Tasks : task_pc = [t \in 1..n |-> "start"]
    /\ task_conn = [t \in DOMAIN task_pc |-> 0]
    /\ NoSmartMatchCall
    /\ NoTextCall
    /\ NoToolCall
    /\ spoken_name = << >>
    /\ NoGeoCall
    /\ NoBootCall

connRest == << smartVars, textVars, toolVars, spoken_name, geoVars, bootVars >>

\* `if not self._connection`
NotConnected(conn) == conn = 0

\* get_database, lines 389-392: there is no instance; it is made, and
\* connect() goes as far as awaiting aiosqlite.connect
GetDatabaseFirst(t) ==
    /\ task_pc[t] = "start"
    /\ database_instance = "None"
    /\ database_instance' = "Database"
    /\ task_pc' = [task_pc EXCEPT ![t] =
                      IF NotConnected(connection) THEN "connecting" ELSE "connected"]
    /\ UNCHANGED << connection, opened, task_conn, connRest >>

\* get_database, lines 389 and 393, then the method of the tool: the
\* instance is there and is returned as it is; get_connection (lines 44-47)
\* yields its connection, or calls connect(), which awaits
\* aiosqlite.connect when there is none
GetDatabaseAgain(t) ==
    /\ task_pc[t] = "start"
    /\ database_instance = "Database"
    /\ IF NotConnected(connection)
       THEN /\ task_pc' = [task_pc EXCEPT ![t] = "connecting"]
            /\ UNCHANGED task_conn
       ELSE /\ task_pc' = [task_pc EXCEPT ![t] = "using"]
            /\ task_conn' = [task_conn EXCEPT ![t] = connection]
    /\ UNCHANGED << database_instance, connection, opened, connRest >>

\* connect, lines 25-31: aiosqlite.connect has opened a connection; it
\* becomes self._connection, and the first PRAGMA is awaited
Connected(t) ==
    /\ task_pc[t] = "connecting"
    /\ opened' = opened + 1
    /\ connection' = opened + 1
    /\ task_pc' = [task_pc EXCEPT ![t] = "connected"]
    /\ UNCHANGED << database_instance, task_conn, connRest >>

\* connect, lines 31-33, and lines 46-47 of get_connection: the PRAGMAs are
\* done, connect() returns and the task is handed self._connection
Yield(t) ==
    /\ task_pc[t] = "connected"
    /\ task_pc' = [task_pc EXCEPT ![t] = "using"]
    /\ task_conn' = [task_conn EXCEPT ![t] = connection]
    /\ UNCHANGED << database_instance, connection, opened, connRest >>

\* the tool call is over; the connection stays open
Leave(t) ==
    /\ task_pc[t] = "using"
    /\ task_pc' = [task_pc EXCEPT ![t] = "done"]
    /\ UNCHANGED << database_instance, connection, opened, task_conn, connRest >>

ConnNext ==
    \E t \in DOMAIN task_pc :
        \/ GetDatabaseFirst(t)
        \/ GetDatabaseAgain(t)
        \/ Connected(t)
        \/ Yield(t)
        \/ Leave(t)

ConnSpec == ConnInit /\ [][ConnNext]_vars

\* the tasks awaiting aiosqlite.connect
Connecting == { t \in DOMAIN task_pc : task_pc[t] = "connecting" }

\* C29 - single connection under concurrency: for every interleaving of
\* concurrent tool calls that reach get_database() and
\* Database.get_connection() while no connection exists yet, exactly one
\* underlying database connection is opened - no second connect runs while
\* the first is still in progress, and no caller is handed the singleton's
\* connection before it is established.
C29_OneConnectionOpened ==
    /\ opened <= 1
    /\ Cardinality(Connecting) <= 1
    /\ \A t \in DOMAIN task_pc :
          task_pc[t] \in {"using", "done"} => (task_conn[t] # 0 /\ task_conn[t] = connection)
    /\ (\A t \in DOMAIN task_pc : task_pc[t] = "done") => opened = 1

\* C29's case happens: one task is awaiting the connection and another has
\* reached get_database() with no connection there yet
C29_Witness ==
    /\ Cardinality(DOMAIN task_pc) >= 2
    /\ connection = 0
    /\ \E t \in DOMAIN task_pc, u \in DOMAIN task_pc :
          /\ t # u
          /\ task_pc[t] = "connecting"
          /\ task_pc[u] = "connecting"

----------------------------------------------------------------------------
(* Properties of the operations on locations                               *)

\* list_suburbs_in_radius has returned
RadiusReturned == operation = "list_suburbs_in_radius" /\ stage = "done"

\* C21 - invalid radius: list_suburbs_in_radius called with radius_km <= 0
\* returns an error result and performs no store access at all (no centre
\* lookup, no radius search); a non-error result is only ever produced for
\* 0 < radius_km <= 500.  The store is not reached either for a radius
\* outside that range.
C21_InvalidRadiusTouchesNoStore ==
    operation = "list_suburbs_in_radius" =>
        /\ (RadiusReturned /\ radius_km <= 0) =>
              (response.status = "error" /\ store_calls = << >>)
        /\ (RadiusReturned /\ response.status # "error") =>
              (0 < radius_km /\ radius_km <= 500000)
        /\ store_calls # << >> => (0 < radius_km /\ radius_km <= 500000)

\* C21 happens: a call with radius 0 for a centre the store has coordinates
\* for has returned an error, the store untouched
C21_Witness ==
    /\ RadiusReturned
    /\ radius_km = 0
    /\ \E r \in db : r.locality = center /\ HasCoordinates(r)
    /\ response.status = "error"
    /\ store_calls = << >>


\* one of the two tools has returned after asking the store for its centre
CenterLookedUp ==
    /\ operation \in {"list_suburbs_in_radius", "get_neighboring_suburbs"}
    /\ stage = "done"
    /\ store_calls # << >>

\* the rows of the store for the centre, as the tool asks for them
CenterRecords ==
    IF operation = "list_suburbs_in_radius" /\ isdigit(center) /\ Len(center) = 4
    THEN search_by_postcode(db, center)
    ELSE search_by_suburb(db, center, state)

\* the places of the centre's rows that have a latitude and a longitude
WithBothPresent ==
    { k \in 1..Len(CenterRecords) :
         CenterRecords[k].latitude # << >> /\ CenterRecords[k].longitude # << >> }

\* the errors of a centre without coordinates, and of get_neighboring_suburbs
\* for a suburb the store has no rows for
NoCoordinatesErrors ==
    { "not found or has no coordinates", "No coordinates available", "not found" }

\* C22 - missing coordinates: list_suburbs_in_radius and
\* get_neighboring_suburbs return the 'no coordinates' error exactly when
\* no row of the store for the centre has both latitude and longitude
\* present; whenever some row of the centre has both present (whatever
\* their value, 0.0 included), the first such row is used as the centre and
\* the radius search is run.
C22_NoCoordinatesOnlyWhenAbsent ==
    CenterLookedUp =>
        IF WithBothPresent = {}
        THEN /\ response.status = "error"
             /\ response.error \in NoCoordinatesErrors
             /\ Len(store_calls) = 2
        ELSE /\ response.error \notin NoCoordinatesErrors
             /\ center_coords =
                   << CenterRecords[Least(WithBothPresent)].latitude[1],
                      CenterRecords[Least(WithBothPresent)].longitude[1] >>
             /\ Len(store_calls) = 3
             /\ store_calls[3] = "search_by_radius"

\* C22's case happens: the first row of the centre has no coordinates, a
\* later one has, and the radius search was run from that one
C22_Witness ==
    /\ CenterLookedUp
    /\ WithBothPresent # {}
    /\ 1 \notin WithBothPresent
    /\ center_coords =
          << CenterRecords[Least(WithBothPresent)].latitude[1],
             CenterRecords[Least(WithBothPresent)].longitude[1] >>
    /\ store_calls[Len(store_calls)] = "search_by_radius"


\* Database.search_by_radius, called by itself, has returned or raised
SearchEnded == operation = "search_by_radius" /\ stage = "done"

\* the rows of the store with both coordinates whose distance from the
\* centre is at most the radius
WithinRadius ==
    { r \in db : /\ r.latitude # << >>
                 /\ r.longitude # << >>
                 /\ distance_km(center_coords[1], center_coords[2],
                                r.latitude[1], r.longitude[1]) <= radius_km }

\* the rows returned
RowsReturned == { response.rows[k] : k \in 1..Len(response.rows) }

\* C23 - zero-latitude guard: a radius search with centre latitude exactly
\* 0.0 (e.g. center_lat=0.0, center_lon=151.0, radius_km=50) completes
\* without raising and applies no longitude bound, so that the rows east or
\* west of the centre within the radius are not excluded.
C23_ZeroLatitudeSearchCompletes ==
    (SearchEnded /\ center_coords[1] = 0 /\ radius_km > 0) =>
        /\ response.raised = ""
        /\ WithinRadius \subseteq RowsReturned

\* C23's case happens: the search from (0.0, 151.0) with radius 50 over a
\* store with a row 11 km to the east has ended
C23_Witness ==
    /\ SearchEnded
    /\ center_coords = P_Zero
    /\ radius_km = 50000
    /\ \E r \in WithinRadius : r.longitude[1] > center_coords[2]

\* C24 - the radius filter is exact: for every directory, centre and
\* radius, the radius search returns precisely the rows with both
\* coordinates present whose great-circle distance from the centre is at
\* most radius_km - a row at exactly radius_km is included, one beyond it
\* excluded - and the bounding-box pre-filter never removes a row that the
\* distance test would keep.
C24_RadiusFilterIsExact ==
    (SearchEnded /\ center_coords[1] # 0 /\ radius_km > 0) =>
        /\ response.raised = ""
        /\ RowsReturned = WithinRadius
        /\ \A r \in WithinRadius :
              WhereClause(r, center_coords[1], center_coords[2], radius_km)

\* C24's case happens: the search has ended for a centre with rows within
\* the radius and rows beyond it
C24_Witness ==
    /\ SearchEnded
    /\ center_coords[1] # 0
    /\ radius_km > 0
    /\ WithinRadius # {}
    /\ \E r \in db : r.latitude # << >> /\ r \notin WithinRadius


\* the grouping of one of the two tools has returned
Grouped == stage = "done" /\ operation \in {"list_suburbs_in_radius", "get_neighboring_suburbs"}

\* the rows the tool groups: all of them, or those of another name than
\* the suburb asked for
RowsGrouped ==
    { k \in 1..Len(nearby_results) :
         \/ operation = "list_suburbs_in_radius"
         \/ lower(nearby_results[k].locality) # lower(center) }

\* the rows of a (name, state) pair
RowsOf(name, st) ==
    { k \in 1..Len(nearby_results) :
         nearby_results[k].locality = name /\ nearby_results[k].state = st }

\* the distinct (name, state) pairs of a set of rows
PairsOf(places) == { << nearby_results[k].locality, nearby_results[k].state >> : k \in places }

PostcodesOf(name, st) == { nearby_results[k].postcode : k \in RowsOf(name, st) }

\* the least distance over the rows of the pair, in hundredths
MinimumOf(name, st) ==
    CHOOSE d \in { nearby_results[k].distance_km : k \in RowsOf(name, st) } :
        \A k \in RowsOf(name, st) : d <= nearby_results[k].distance_km

\* the postcodes of the k-th suburb returned
Emitted(k) == { response.suburbs[k].postcodes[i] : i \in 1..Len(response.suburbs[k].postcodes) }

\* the suburbs returned are one for each of the pairs, with the union of
\* the postcodes
OnePerPair(pairs) ==
    /\ Len(response.suburbs) = Cardinality(pairs)
    /\ \A p \in pairs :
          \E k \in 1..Len(response.suburbs) :
             /\ response.suburbs[k].suburb = p[1]
             /\ response.suburbs[k].state = p[2]
             /\ Emitted(k) = PostcodesOf(p[1], p[2])

RowsAscending ==
    \A k \in 1..(Len(nearby_results) - 1) :
        nearby_results[k].distance_km <= nearby_results[k + 1].distance_km

\* the pairs grouped that are not among the suburbs returned
Dropped ==
    { p \in PairsOf(RowsGrouped) :
         \A k \in 1..Len(response.suburbs) :
            << response.suburbs[k].suburb, response.suburbs[k].state >> # p }

\* C26 - proximity ordering: the suburbs returned by list_suburbs_in_radius
\* are in non-decreasing order of their (minimum) distance from the centre,
\* and get_neighboring_suburbs returns the nearest groups first, so that
\* truncation to max_neighbors never drops a group that is strictly nearer
\* than one it keeps.  The distances returned do not decrease along the
\* list whatever the order of the rows; for rows in the order the search
\* delivers them, neither do the least distances of the groups.
C26_NearestFirst ==
    Grouped =>
        /\ \A k \in 1..(Len(response.suburbs) - 1) :
              response.suburbs[k].distance_km <= response.suburbs[k + 1].distance_km
        /\ RowsAscending =>
              /\ \A k \in 1..(Len(response.suburbs) - 1) :
                    MinimumOf(response.suburbs[k].suburb, response.suburbs[k].state)
                       <= MinimumOf(response.suburbs[k + 1].suburb,
                                    response.suburbs[k + 1].state)
              /\ \A p \in Dropped :
                    \A k \in 1..Len(response.suburbs) :
                       MinimumOf(response.suburbs[k].suburb, response.suburbs[k].state)
                          <= MinimumOf(p[1], p[2])

\* C26's case happens: get_neighboring_suburbs kept one group of rows
\* delivered in ascending order and dropped a farther one
C26_Witness ==
    /\ Grouped
    /\ operation = "get_neighboring_suburbs"
    /\ RowsAscending
    /\ Len(response.suburbs) = 1
    /\ \E p \in Dropped :
          MinimumOf(p[1], p[2])
             > MinimumOf(response.suburbs[1].suburb, response.suburbs[1].state)

=============================================================================
